---- MODULE Spec2Model ----
(***************************************************************************)
(* Model of the ride-hailing realtime backend (src/socket.js): dispatch,   *)
(* acceptance arbitration, ride lifecycle, completion billing and the      *)
(* driver wallet, plus the working-hours service described in              *)
(* src/WALLET_DEBIT.md.                                                    *)
(*                                                                         *)
(* Distances are counted in tenths of a kilometre, money in rupees, time   *)
(* in milliseconds.  A raidId RIDnnnnnn is represented by its number.      *)
(***************************************************************************)
EXTENDS Integers, Sequences, FiniteSets, TLC

VARIABLES
    rideStore,            \* Ride collection: raidId -> ride document
    driverStore,          \* Driver collection: driverId -> driver document
    userStore,            \* passenger documents: userId -> [wallet, walletBalance]
    transactions,         \* Transaction collection (sequence of documents)
    raidSeq,              \* RaidId counter document {_id: 'raidId', sequence}
    activeDriverSockets,  \* in-memory Map driverId -> presence entry
    rooms,                \* socket.io room membership: socket -> set of rooms
    rides,                \* in-memory rides object: raidId -> cached ride
    recentRideEmissions,  \* in-memory Map raidId -> timestamp of fan-out
    prices,               \* ridePriceController price cache
    activeTimers,         \* workingHoursService timers: driver -> seconds left
    now,                  \* Date.now()
    userEvents,           \* events emitted to each passenger room, in order
    fanouts,              \* newRideRequest emissions, in order
    bookAcks,             \* bookRide acknowledgements, in order
    acc,                  \* acceptRide handler of each driver: position, locals
    acceptAcks,           \* callbacks each driver's acceptance requests received
    startLog,             \* start requests handled, in order
    completeAcks,         \* driverCompletedRide acknowledgements, in order
    hoursAcks,            \* working-hours start responses, in order
    raidIds,              \* RAID_IDs returned by generateSequentialRaidId
    pushes,               \* push notification sends attempted, in order
    hoursLoaded,          \* driver documents the working-hours service holds
                          \* between findOne and save
    raidCalls,            \* calls of generateSequentialRaidId that hold the
                          \* incremented sequence and have not returned
    locationEmits,        \* userLiveLocationUpdate emissions, in order
    driverLocations       \* DriverLocation collection: the status of the latest
                          \* sample saved for each driver

storeVars == <<rideStore, driverStore, userStore, transactions, raidSeq>>
memVars   == <<activeDriverSockets, rooms, rides, recentRideEmissions, prices,
               activeTimers>>
outVars   == <<userEvents, fanouts, bookAcks, acceptAcks, startLog,
               completeAcks, hoursAcks>>
callVars  == <<raidIds, pushes, hoursLoaded, raidCalls, locationEmits>>
svcVars   == <<callVars, driverLocations>>
vars      == <<storeVars, memVars, outVars, svcVars, now, acc>>

-----------------------------------------------------------------------------
(* Bounds of the model *)

MaxRides == 2
MaxTime == 6000
MaxAcceptCalls == 1
MaxRaceRides == 1
MaxLifecycleRides == 1
MaxStarts == 1
MaxCompletions == 1
MaxHoursOps == 3
TickMs == 2000

(* Program constants *)

DedupWindowMs == 5000
SeqInitial == 100000
SeqMax == 999999
FallbackBike == 15
FallbackTaxi == 40
FallbackPort == 75
StartShiftCharge == 100
AutoDebitAmount == 100
SecondsPerHour == 3600

-----------------------------------------------------------------------------
(* Universe *)

Drivers == {"DRV001", "DRV002"}
UnknownDriver == "DRV999"
DriverIds == Drivers \cup {UnknownDriver}
Users == {"u1"}
Sockets == {"s1", "s2"}
VehicleTypes == {"bike", "taxi", "port"}
ClientVehicleTypes == {"bike", "Taxi", "none"}
NoDriver == "none"
NoRide == 0

\* String.prototype.toLowerCase on the vehicle-type spellings clients send
ToLowerCase(s) ==
    CASE s = "Taxi" -> "taxi"
      [] s = "TAXI" -> "taxi"
      [] s = "Bike" -> "bike"
      [] s = "BIKE" -> "bike"
      [] s = "Port" -> "port"
      [] OTHER -> s

\* (vehicleType || 'taxi').toLowerCase()
NormalizeVehicleType(vt) == ToLowerCase(IF vt = "none" THEN "taxi" ELSE vt)

VehicleRoom(vt) == "drivers_" \o vt
VehicleRooms == {VehicleRoom(vt) : vt \in VehicleTypes}
UserRoom(u) == u

CustomerIds == {<<"C", "U", "S", "0", "0", "6", "5">>, <<"4", "2">>}
RandomOtps == {<<"1", "0", "0", "0">>, <<"9", "9", "9", "9">>}

\* customerId.slice(-4) when it has at least 4 characters, else random digits
OtpChoices(customerId) ==
    IF Len(customerId) >= 4
    THEN {SubSeq(customerId, Len(customerId) - 3, Len(customerId))}
    ELSE RandomOtps

BookDistances == {4, 54}

\* Math.round(km * pricePerKm), the distance given in tenths of a km
RoundFare(tenths, pricePerKm) == (tenths * pricePerKm + 5) \div 10

FallbackPrice(vt) ==
    IF vt = "bike" THEN FallbackBike
    ELSE IF vt = "taxi" THEN FallbackTaxi ELSE FallbackPort

\* ridePriceController.calculateRidePrice followed by bookRide's fallback
BookingFare(vt, tenths) ==
    LET p == IF vt \in DOMAIN prices THEN prices[vt] ELSE 0
        calc == RoundFare(tenths, p)
    IN IF calc <= 0 THEN RoundFare(tenths, FallbackPrice(vt)) ELSE calc

\* the counter that is incremented and never reset
NextSequenceNoReset(seq) == seq + 1

\* generateSequentialRaidId: $inc the counter, reset to 100000 past 999999
NextSequence(seq) == IF seq + 1 > SeqMax THEN SeqInitial ELSE seq + 1

DecimalDigits == <<"0", "1", "2", "3", "4", "5", "6", "7", "8", "9">>

\* Number.prototype.toString() of a non-negative integer
RECURSIVE ToDecimalString(_)
ToDecimalString(n) ==
    IF n < 10 THEN <<DecimalDigits[n + 1]>>
    ELSE ToDecimalString(n \div 10) \o <<DecimalDigits[(n % 10) + 1]>>

\* String.prototype.padStart(targetLength, ch)
PadStart(s, targetLength, ch) ==
    IF Len(s) >= targetLength THEN s
    ELSE [i \in 1..(targetLength - Len(s)) |-> ch] \o s

\* `RID${sequenceNumber.toString().padStart(6, '0')}`
FormatRaidId(sequenceNumber) ==
    <<"R", "I", "D">> \o PadStart(ToDecimalString(sequenceNumber), 6, "0")

RoomMembers(room) == {s \in Sockets : room \in rooms[s]}

-----------------------------------------------------------------------------
(* Initial state: empty collections except the provisioned drivers and     *)
(* passengers, the counter document created by testRaidIdModel.            *)

InitDriver(vt, w) ==
    [vehicleType |-> vt, wallet |-> w, status |-> "Offline",
     timerActive |-> FALSE, remainingWorkingSeconds |-> 0,
     warningsIssued |-> 0, workingHoursLimit |-> 12,
     workingHoursDeductionAmount |-> 0, fcmToken |-> "none"]

\* the driver documents the admin has provisioned
ProvisionedDriver(d) ==
    IF d = "DRV001"
    THEN [InitDriver("bike", 250) EXCEPT !.workingHoursDeductionAmount = 120]
    ELSE InitDriver("taxi", 50)

\* the state after start-up with the counter document at sequence, the price
\* cache holding priceTable and the Ride collection holding storedRides
InitStore(sequence, priceTable, storedRides) ==
    /\ rideStore = storedRides
    /\ driverStore = [d \in Drivers |-> ProvisionedDriver(d)]
    /\ userStore = [u \in Users |-> [wallet |-> 100, walletBalance |-> 0]]
    /\ transactions = <<>>
    /\ raidSeq = sequence
    /\ activeDriverSockets = <<>>
    /\ rooms = [s \in Sockets |-> {}]
    /\ rides = <<>>
    /\ recentRideEmissions = <<>>
    /\ prices = priceTable
    /\ activeTimers = <<>>
    /\ now = 0
    /\ userEvents = [u \in Users |-> <<>>]
    /\ fanouts = <<>>
    /\ bookAcks = <<>>
    /\ acc = [d \in DriverIds |->
                [pc |-> "idle", rideId |-> NoRide, socket |-> "none",
                 calls |-> 0]]
    /\ acceptAcks = [d \in DriverIds |-> <<>>]
    /\ startLog = <<>>
    /\ completeAcks = <<>>
    /\ hoursAcks = <<>>
    /\ raidIds = <<>>
    /\ pushes = <<>>
    /\ hoursLoaded = <<>>
    /\ raidCalls = <<>>
    /\ locationEmits = <<>>
    /\ driverLocations = <<>>

\* the state after start-up with no ride stored yet
InitWith(sequence, priceTable) == InitStore(sequence, priceTable, <<>>)

Init == InitWith(SeqInitial, [vt \in VehicleTypes |-> FallbackPrice(vt)])

-----------------------------------------------------------------------------
(* Clock *)

Tick ==
    /\ now + TickMs <= MaxTime
    /\ now' = now + TickMs
    /\ UNCHANGED <<storeVars, memVars, outVars, svcVars, acc>>

-----------------------------------------------------------------------------
(* Presence and rooms *)

\* registerDriver: the stored driver's vehicle type when the driver is found,
\* else the type the client sent (default taxi), lowercased
ActualVehicleType(d, clientVt) ==
    IF d \in DOMAIN driverStore
    THEN ToLowerCase(driverStore[d].vehicleType)
    ELSE NormalizeVehicleType(clientVt)

\* the registration update that also stores the client's vehicle type
\* saveDriverLocationToDB: a DriverLocation sample with the status given,
\* Offline stored as offline
SaveDriverLocationToDB(d, status) ==
    [x \in DOMAIN driverLocations \cup {d} |->
       IF x = d THEN (IF status = "Offline" THEN "offline" ELSE status)
       ELSE driverLocations[x]]

RegisteredDriverSetsVehicleType(driver, clientVt) ==
    [driver EXCEPT !.status = "Live",
                   !.vehicleType = NormalizeVehicleType(clientVt)]

\* the driver document after registerDriver's update ($set status, location,
\* lastUpdate)
RegisteredDriver(driver, clientVt) == [driver EXCEPT !.status = "Live"]

\* socket.on("registerDriver")
RegisterDriver(s, d, clientVt) ==
    LET actualVehicleType == ActualVehicleType(d, clientVt)
    IN /\ activeDriverSockets' =
              [x \in DOMAIN activeDriverSockets \cup {d} |->
                 IF x = d
                 THEN [vehicleType |-> actualVehicleType, status |-> "Live",
                       socketId |-> s, lastUpdate |-> now, isOnline |-> TRUE]
                 ELSE activeDriverSockets[x]]
       /\ rooms' = [rooms EXCEPT ![s] = @ \cup {VehicleRoom(actualVehicleType)}]
       /\ driverStore' =
              IF d \in DOMAIN driverStore
              THEN [driverStore EXCEPT ![d] = RegisteredDriver(@, clientVt)]
              ELSE driverStore
       /\ UNCHANGED <<rideStore, userStore, transactions, raidSeq, rides,
                      recentRideEmissions, prices, activeTimers, now, svcVars, outVars,
                      acc>>

\* socket.on("driverGoOnline")
DriverGoOnline(s, d) ==
    /\ d \in DOMAIN activeDriverSockets
    /\ activeDriverSockets' =
           [activeDriverSockets EXCEPT ![d].status = "Live",
                                       ![d].isOnline = TRUE]
    /\ rooms' = [rooms EXCEPT
                   ![s] = @ \cup {VehicleRoom(activeDriverSockets[d].vehicleType)}]
    /\ driverLocations' = SaveDriverLocationToDB(d, "Live")
    /\ UNCHANGED <<storeVars, rides, recentRideEmissions, prices, activeTimers,
                   now, callVars, outVars, acc>>

-----------------------------------------------------------------------------
(* Dispatch *)

NewRide(u, customerId, vt, tenths, fare, otp) ==
    [user |-> u, customerId |-> customerId, rideType |-> vt, fare |-> fare,
     otp |-> otp, distanceKm |-> tenths, status |-> "pending",
     driverId |-> NoDriver, actualDistance |-> 0, actualFare |-> 0,
     paymentMethod |-> "cash"]

\* io.to(room).emit("newRideRequest", ...): the sockets in the room receive it
EmitNewRideRequest(rideId, vt, room) ==
    Append(fanouts,
           [rideId |-> rideId, vehicleType |-> vt, room |-> room,
            recipients |-> RoomMembers(room),
            memberships |-> [s \in RoomMembers(room) |-> rooms[s]]])

BookAck(u, payload, rideId, success, alreadySent, otp) ==
    [user |-> u, payload |-> payload, rideId |-> rideId, success |-> success,
     alreadySent |-> alreadySent, otp |-> otp, at |-> now]

\* Driver.find of sendFCMNotifications: stored drivers of the vehicle type
\* with status Live, online or available and a push token
PushTargets(vt) ==
    {d \in DOMAIN driverStore :
        /\ driverStore[d].vehicleType = vt
        /\ driverStore[d].status \in {"Live", "online", "available"}
        /\ driverStore[d].fcmToken # "none"}

\* one call of sendNotificationToMultipleDrivers
PushSend(kind, rideId, vt, recipients, ok) ==
    [kind |-> kind, rideId |-> rideId, vehicleType |-> vt,
     recipients |-> recipients, ok |-> ok]

\* bookRide with the outcome of the push send given: "sent", "failed" (the
\* error is caught and becomes a result with success false) or "thrown" (the
\* error leaves the handler's try block)
BookRideWith(u, customerId, clientVt, tenths, push) ==
    LET normalizedVehicleType == NormalizeVehicleType(clientVt)
        finalPrice == BookingFare(normalizedVehicleType, tenths)
        rideId == NextSequence(raidSeq)
        payload == <<u, customerId, clientVt, tenths>>
        lastEmission == IF rideId \in DOMAIN recentRideEmissions
                        THEN recentRideEmissions[rideId] ELSE 0
    IN /\ Len(bookAcks) < MaxRides
       /\ raidSeq' = rideId
       /\ raidIds' = Append(raidIds, FormatRaidId(rideId))
       /\ \E otp \in OtpChoices(customerId) :
            IF rideId \in DOMAIN rideStore
            THEN \* existingRide: acknowledged with the stored ride, nothing saved
                 /\ bookAcks' = Append(bookAcks,
                        BookAck(u, payload, rideId, TRUE, FALSE,
                                rideStore[rideId].otp))
                 /\ UNCHANGED <<rideStore, rides, recentRideEmissions, fanouts,
                                pushes>>
            ELSE /\ rideStore' =
                        [r \in DOMAIN rideStore \cup {rideId} |->
                           IF r = rideId
                           THEN NewRide(u, customerId, normalizedVehicleType,
                                        tenths, finalPrice, otp)
                           ELSE rideStore[r]]
                 /\ rides' =
                        [r \in DOMAIN rides \cup {rideId} |->
                           IF r = rideId
                           THEN [status |-> "pending", timestamp |-> now,
                                 userId |-> u, driverId |-> NoDriver,
                                 vehicleType |-> normalizedVehicleType,
                                 fare |-> finalPrice, rejectedBy |-> <<>>]
                           ELSE rides[r]]
                 /\ pushes' = Append(pushes,
                        PushSend("booking", rideId, normalizedVehicleType,
                                 PushTargets(normalizedVehicleType),
                                 push = "sent"))
                 /\ IF push = "thrown"
                    THEN \* the outer catch answers; nothing is emitted
                         /\ bookAcks' = Append(bookAcks,
                                BookAck(u, payload, rideId, FALSE, FALSE, otp))
                         /\ UNCHANGED <<recentRideEmissions, fanouts>>
                    ELSE IF lastEmission # 0 /\ now - lastEmission < DedupWindowMs
                    THEN \* deduplicated: no fan-out
                         /\ bookAcks' = Append(bookAcks,
                                BookAck(u, payload, rideId, TRUE, TRUE, otp))
                         /\ UNCHANGED <<recentRideEmissions, fanouts>>
                    ELSE /\ recentRideEmissions' =
                                [r \in DOMAIN recentRideEmissions \cup {rideId} |->
                                   IF r = rideId THEN now
                                   ELSE recentRideEmissions[r]]
                         /\ fanouts' = EmitNewRideRequest(rideId,
                                normalizedVehicleType,
                                VehicleRoom(normalizedVehicleType))
                         /\ bookAcks' = Append(bookAcks,
                                BookAck(u, payload, rideId, TRUE, FALSE, otp))
       /\ UNCHANGED <<driverStore, userStore, transactions, activeDriverSockets,
                      rooms, prices, activeTimers, now, hoursLoaded, raidCalls,
                      locationEmits, driverLocations, userEvents,
                      acceptAcks, startLog, completeAcks, hoursAcks, acc>>

\* bookRide whose push error leaves the handler's try block
BookRideFcmErrorPropagates(u, customerId, clientVt, tenths) ==
    BookRideWith(u, customerId, clientVt, tenths, "thrown")

\* socket.on("bookRide") when the push send fails: sendFCMNotifications
\* catches the error and returns success false
BookRideFcmFails(u, customerId, clientVt, tenths) ==
    BookRideWith(u, customerId, clientVt, tenths, "failed")

\* socket.on("bookRide")
BookRide(u, customerId, clientVt, tenths) ==
    BookRideWith(u, customerId, clientVt, tenths, "sent")

-----------------------------------------------------------------------------
(* Room membership and fan-out: registration, go-online, booking *)

NextRooms ==
    \/ \E s \in Sockets, d \in DriverIds, vt \in {"bike", "Taxi"} :
          RegisterDriver(s, d, vt)
    \/ \E s \in Sockets, d \in DriverIds : DriverGoOnline(s, d)
    \/ \E u \in Users, vt \in {"bike", "Taxi"} :
          BookRide(u, <<"C", "U", "S", "0", "0", "6", "5">>, vt, 54)

SpecRooms == Init /\ [][NextRooms]_vars

\* C4: every newRideRequest goes to the room drivers_<r.vehicleType> only, and
\* no socket that receives it is, at that moment, a member of a room
\* drivers_<x> with x different from the ride's vehicle type.
C4_FanoutOnlyMatchingType ==
    \A i \in 1..Len(fanouts) :
        LET f == fanouts[i]
        IN /\ f.room = VehicleRoom(f.vehicleType)
           /\ \A s \in f.recipients :
                 \A x \in VehicleTypes \ {f.vehicleType} :
                     VehicleRoom(x) \notin f.memberships[s]

-----------------------------------------------------------------------------
(* Repeated bookings over time *)

NextBooking ==
    \/ Tick
    \/ \E u \in Users, c \in CustomerIds, vt \in ClientVehicleTypes,
          km \in BookDistances : BookRide(u, c, vt, km)

SpecBooking == Init /\ [][NextBooking]_vars

\* C5: two bookRide calls with an identical payload less than 5 seconds apart
\* are acknowledged with the same raidId, the second with alreadySent, and
\* that raidId is fanned out exactly once.
C5_IdenticalBookingDeduplicated ==
    \A i, j \in 1..Len(bookAcks) :
        (/\ i < j
         /\ bookAcks[i].payload = bookAcks[j].payload
         /\ bookAcks[j].at - bookAcks[i].at < DedupWindowMs)
        => /\ bookAcks[j].rideId = bookAcks[i].rideId
           /\ bookAcks[j].alreadySent
           /\ Cardinality({k \in 1..Len(fanouts) :
                             fanouts[k].rideId \in {bookAcks[i].rideId,
                                                    bookAcks[j].rideId}}) = 1

-----------------------------------------------------------------------------
(* Acceptance *)

\* an event emitted to a passenger's private room
UserEvent(type, rideId, driverId, fare, status) ==
    [type |-> type, rideId |-> rideId, driverId |-> driverId, fare |-> fare,
     status |-> status]

EmitToUser(u, ev) == [userEvents EXCEPT ![u] = Append(@, ev)]

AcceptAck(kind, d, call, rideId, observed, success, message, userData) ==
    [kind |-> kind, driver |-> d, call |-> call, rideId |-> rideId,
     observed |-> observed, success |-> success, message |-> message,
     userData |-> userData]

StoredStatus(r) == IF r \in DOMAIN rideStore THEN rideStore[r].status ELSE "absent"

\* acceptRide: startSession, startTransaction, Ride.findOne({RAID_ID, status in
\* [pending, searching]}); no match: abortTransaction and the failure callback
AcceptFindOne(s, d, r) ==
    /\ acc[d].pc = "idle"
    /\ acc[d].calls < MaxAcceptCalls
    /\ IF StoredStatus(r) \in {"pending", "searching"}
       THEN /\ acc' = [acc EXCEPT ![d] = [pc |-> "update", rideId |-> r,
                                          socket |-> s, calls |-> @.calls + 1]]
            /\ UNCHANGED acceptAcks
       ELSE /\ acc' = [acc EXCEPT ![d].calls = @ + 1]
            /\ acceptAcks' = [acceptAcks EXCEPT ![d] = Append(@,
                   AcceptAck("acceptRide", d, acc[d].calls + 1, r,
                             StoredStatus(r), FALSE, "not available", FALSE))]
    /\ UNCHANGED <<storeVars, memVars, now, svcVars, userEvents, fanouts, bookAcks,
                   startLog, completeAcks, hoursAcks>>

\* AcceptUpdate with the status condition of the update filter left out
AcceptUpdateNoFilter(d) ==
    LET r == acc[d].rideId
    IN /\ acc[d].pc = "update"
       /\ rideStore' = [rideStore EXCEPT ![r].status = "accepted",
                                         ![r].driverId = d]
       /\ acc' = [acc EXCEPT ![d].pc = "respond"]
       /\ UNCHANGED <<driverStore, userStore, transactions, raidSeq, memVars,
                      now, svcVars, outVars>>

\* acceptRide: Ride.findOneAndUpdate({RAID_ID, status in [pending, searching]},
\* {status: accepted, driverId}) in the transaction, then commitTransaction.
\* When the ride was taken since the transaction's read, the store either
\* raises a write conflict (inner catch: failure callback, rethrow; outer
\* catch: failure callback again) or returns no document (the later use of
\* updatedRide throws; outer catch: one failure callback).
AcceptUpdate(d) ==
    LET r == acc[d].rideId
    IN /\ acc[d].pc = "update"
       /\ IF StoredStatus(r) \in {"pending", "searching"}
          THEN /\ rideStore' = [rideStore EXCEPT ![r].status = "accepted",
                                                 ![r].driverId = d]
               /\ acc' = [acc EXCEPT ![d].pc = "respond"]
               /\ UNCHANGED acceptAcks
          ELSE /\ acc' = [acc EXCEPT ![d].pc = "idle"]
               /\ \E writeConflict \in BOOLEAN :
                     acceptAcks' = [acceptAcks EXCEPT ![d] =
                        IF writeConflict
                        THEN @ \o
                             <<AcceptAck("acceptRide", d, acc[d].calls, r,
                                         "pending", FALSE,
                                         "Failed to accept ride", FALSE),
                               AcceptAck("acceptRide", d, acc[d].calls, r,
                                         "pending", FALSE, "error", FALSE)>>
                        ELSE Append(@,
                                 AcceptAck("acceptRide", d, acc[d].calls, r,
                                           "pending", FALSE, "error", FALSE))]
               /\ UNCHANGED rideStore
       /\ UNCHANGED <<driverStore, userStore, transactions, raidSeq, memVars,
                      now, svcVars, userEvents, fanouts, bookAcks, startLog,
                      completeAcks, hoursAcks>>

\* acceptRide after the commit: the success callback with the user payload,
\* rideAccepted to the passenger's room, socket.join(userRoom)
AcceptRespond(d) ==
    LET r == acc[d].rideId
        u == rideStore[r].user
    IN /\ acc[d].pc = "respond"
       /\ acceptAcks' = [acceptAcks EXCEPT ![d] = Append(@,
              AcceptAck("acceptRide", d, acc[d].calls, r, "pending", TRUE,
                        "Ride accepted successfully", TRUE))]
       /\ userEvents' = EmitToUser(u,
              UserEvent("rideAccepted", r, d, rideStore[r].fare, "accepted"))
       /\ rooms' = [rooms EXCEPT ![acc[d].socket] = @ \cup {UserRoom(u)}]
       /\ acc' = [acc EXCEPT ![d].pc = "idle"]
       /\ UNCHANGED <<storeVars, activeDriverSockets, rides,
                      recentRideEmissions, prices, activeTimers, now, svcVars, fanouts,
                      bookAcks, startLog, completeAcks, hoursAcks>>

\* socket.on("driverAcceptedRideWithData"): one findOneAndUpdate on RAID_ID
DriverAcceptedRideWithData(d, r) ==
    /\ acc[d].pc = "idle"
    /\ acc[d].calls < MaxAcceptCalls
    /\ acc' = [acc EXCEPT ![d].calls = @ + 1]
    /\ IF r \in DOMAIN rideStore
       THEN /\ rideStore' = [rideStore EXCEPT ![r].status = "accepted",
                                              ![r].driverId = d]
            /\ acceptAcks' = [acceptAcks EXCEPT ![d] = Append(@,
                   AcceptAck("driverAcceptedRideWithData", d,
                             acc[d].calls + 1, r, StoredStatus(r), TRUE,
                             "User data confirmed and stored", TRUE))]
            /\ userEvents' = EmitToUser(rideStore[r].user,
                   UserEvent("rideAcceptedWithData", r, d, rideStore[r].fare,
                             "accepted"))
       ELSE /\ acceptAcks' = [acceptAcks EXCEPT ![d] = Append(@,
                   AcceptAck("driverAcceptedRideWithData", d,
                             acc[d].calls + 1, r, "absent", FALSE,
                             "Ride not found", FALSE))]
            /\ UNCHANGED <<rideStore, userEvents>>
    /\ UNCHANGED <<driverStore, userStore, transactions, raidSeq, memVars, now, svcVars,
                   fanouts, bookAcks, startLog, completeAcks, hoursAcks>>

RideIds == (SeqInitial + 1)..(SeqInitial + MaxRides)

-----------------------------------------------------------------------------
(* The acceptRide race *)

NextAcceptRace ==
    \/ \E u \in Users :
          /\ Len(bookAcks) < MaxRaceRides
          /\ BookRide(u, <<"C", "U", "S", "0", "0", "6", "5">>, "bike", 54)
    \/ \E d \in DriverIds, r \in RideIds : AcceptFindOne("s1", d, r)
    \/ \E d \in DriverIds : AcceptUpdate(d)
    \/ \E d \in DriverIds : AcceptRespond(d)

SpecAcceptRace == Init /\ [][NextAcceptRace]_vars

AcksFor(d, r) == {i \in 1..Len(acceptAcks[d]) : acceptAcks[d][i].rideId = r}
\* the drivers whose acceptRide call read the ride while it was pending
Callers(r) ==
    {d \in DriverIds :
        \E i \in AcksFor(d, r) : acceptAcks[d][i].observed = "pending"}
InFlight(r) == {d \in DriverIds : acc[d].pc # "idle" /\ acc[d].rideId = r}
Winners(r) ==
    {d \in DriverIds : \E i \in AcksFor(d, r) : acceptAcks[d][i].success}

-----------------------------------------------------------------------------
(* All acceptance requests *)

NextAccept ==
    \/ \E u \in Users :
          BookRide(u, <<"C", "U", "S", "0", "0", "6", "5">>, "bike", 54)
    \/ \E d \in Drivers, r \in RideIds : AcceptFindOne("s1", d, r)
    \/ \E d \in Drivers : AcceptUpdate(d)
    \/ \E d \in Drivers : AcceptRespond(d)
    \/ \E d \in Drivers, r \in RideIds : DriverAcceptedRideWithData(d, r)

SpecAccept == Init /\ [][NextAccept]_vars

\* C2: acceptance is a compare-and-set on pending: a ride that is no longer
\* pending is not changed by any acceptance request, and every request that
\* observed a status other than pending is acknowledged with a failure.
C2_AcceptIsCompareAndSet ==
    /\ [](\A d \in DriverIds : \A i \in 1..Len(acceptAcks[d]) :
            acceptAcks[d][i].observed # "pending" => ~acceptAcks[d][i].success)
    /\ [][\A r \in DOMAIN rideStore :
            rideStore[r].status # "pending" => rideStore'[r] = rideStore[r]]_vars

-----------------------------------------------------------------------------
(* Ride lifecycle after acceptance: start, completion, billing *)

SubmittedOtps == {<<"0", "0", "6", "5">>, <<"0", "0", "0", "0">>, <<>>}
CompleteDistances == {55, -55}
ClientFares == {83, 1}
AdminPrices == {0, 20}

\* admin write to the price cache read by getCurrentPrices; the new prices are
\* broadcast to every connected socket
UpdatePrices(vt, p) ==
    /\ prices[vt] # p
    /\ prices' = [prices EXCEPT ![vt] = p]
    /\ UNCHANGED <<storeVars, activeDriverSockets, rooms, rides,
                   recentRideEmissions, activeTimers, now, svcVars, outVars, acc>>

StartEntry(handler, d, r, otp, found) ==
    [handler |-> handler, driver |-> d, rideId |-> r, otp |-> otp,
     found |-> found]

\* socket.on("driverStartedRide"): the payload's rideId and driverId are the
\* only fields read. The delayed repeat of otpVerified and the broadcast of
\* otpVerifiedGlobal are not part of the passenger-room log.
DriverStartedRide(d, r, otp) ==
    /\ rides' = IF r \in DOMAIN rides
                THEN [rides EXCEPT ![r].status = "started"] ELSE rides
    /\ IF r \in DOMAIN rideStore
       THEN /\ rideStore' = [rideStore EXCEPT ![r].status = "started"]
            /\ userEvents' =
                   [userEvents EXCEPT ![rideStore[r].user] = @ \o
                      << UserEvent("rideStatusUpdate", r, NoDriver, 0, "started"),
                         UserEvent("otpVerified", r, d, 0, "started"),
                         UserEvent("driverStartedRide", r, d, 0, "started") >>]
            /\ startLog' = Append(startLog,
                   StartEntry("driverStartedRide", d, r, otp, TRUE))
       ELSE \* ride is null: reading ride.user throws, the catch logs
            /\ startLog' = Append(startLog,
                   StartEntry("driverStartedRide", d, r, otp, FALSE))
            /\ UNCHANGED <<rideStore, userEvents>>
    /\ UNCHANGED <<driverStore, userStore, transactions, raidSeq,
                   activeDriverSockets, rooms, recentRideEmissions, prices,
                   activeTimers, now, svcVars, fanouts, bookAcks, acceptAcks,
                   completeAcks, hoursAcks, acc>>

\* socket.on("otpVerified"): relays the driver's announcement to the passenger
OtpVerified(d, r, otp) ==
    /\ IF r \in DOMAIN rideStore
       THEN /\ userEvents' =
                   [userEvents EXCEPT ![rideStore[r].user] = @ \o
                      << UserEvent("otpVerified", r, d, 0, "started"),
                         UserEvent("rideOTPVerified", r, d, 0, "started"),
                         UserEvent("rideStatusUpdate", r, NoDriver, 0,
                                   "started") >>]
            /\ startLog' = Append(startLog,
                   StartEntry("otpVerified", d, r, otp, TRUE))
       ELSE /\ startLog' = Append(startLog,
                   StartEntry("otpVerified", d, r, otp, FALSE))
            /\ UNCHANGED userEvents
    /\ UNCHANGED <<storeVars, memVars, now, svcVars, fanouts, bookAcks, acceptAcks,
                   completeAcks, hoursAcks, acc>>

\* currentPrices[vehicleType] || 0, then the fallback prices if 0
CompletionPrice(vt) ==
    LET pricePerKm == IF vt \in DOMAIN prices THEN prices[vt] ELSE 0
    IN IF pricePerKm = 0 THEN FallbackPrice(vt) ELSE pricePerKm

CompleteAck(d, r, tenths, fare, success, message, finalFare, balance) ==
    [driver |-> d, rideId |-> r, distance |-> tenths, clientFare |-> fare,
     success |-> success, message |-> message, fare |-> finalFare,
     newWalletBalance |-> balance]

\* the ride document saved by the completion that also replaces the fare
CompletedRideOverwritesFare(ride, tenths, finalFare) ==
    [ride EXCEPT !.status = "completed", !.actualDistance = tenths,
                 !.actualFare = finalFare, !.fare = finalFare]

\* the ride document saved by driverCompletedRide
CompletedRide(ride, tenths, finalFare) ==
    [ride EXCEPT !.status = "completed", !.actualDistance = tenths,
                 !.actualFare = finalFare]

\* driverCompletedRide from the point where finalFare is fixed: save the ride,
\* credit the driver with $inc, debit the passenger when the ride is paid by
\* wallet, emit walletUpdate (its fare field carries the balance),
\* rideCompleted, billAlert, rideStatusUpdate, acknowledge, drop the cached
\* ride
CompleteRide(d, r, tenths, fare, finalFare) ==
    /\ IF r \notin DOMAIN rideStore
       THEN /\ completeAcks' = Append(completeAcks,
                   CompleteAck(d, r, tenths, fare, FALSE, "Ride not found",
                               0, 0))
            /\ UNCHANGED <<rideStore, driverStore, userStore, userEvents,
                           rides>>
       ELSE LET u == rideStore[r].user
                vt == rideStore[r].rideType
                newUserWallet ==
                    IF ToLowerCase(rideStore[r].paymentMethod) = "wallet"
                    THEN userStore[u].wallet - finalFare
                    ELSE userStore[u].wallet
            IN /\ rideStore' = [rideStore EXCEPT
                                  ![r] = CompletedRide(@, tenths, finalFare)]
               /\ driverStore' =
                      IF d \in DOMAIN driverStore
                      THEN [driverStore EXCEPT ![d].status = "Live",
                                               ![d].wallet = @ + finalFare]
                      ELSE driverStore
               /\ userStore' = [userStore EXCEPT ![u].wallet = newUserWallet]
               /\ userEvents' =
                      [userEvents EXCEPT ![u] = @ \o
                         << UserEvent("walletUpdate", r, NoDriver,
                                      newUserWallet, "wallet"),
                            UserEvent("rideCompleted", r, NoDriver, finalFare,
                                      "completed"),
                            UserEvent("billAlert", r, NoDriver, finalFare,
                                      "bill"),
                            UserEvent("rideStatusUpdate", r, NoDriver,
                                      finalFare, "completed") >>]
               /\ completeAcks' = Append(completeAcks,
                      CompleteAck(d, r, tenths, fare, TRUE,
                                  "Ride completed successfully", finalFare,
                                  IF d \in DOMAIN driverStore
                                  THEN driverStore[d].wallet + finalFare
                                  ELSE 0))
               /\ rides' = [x \in DOMAIN rides \ {r} |-> rides[x]]
    /\ UNCHANGED <<transactions, raidSeq, activeDriverSockets, rooms,
                   recentRideEmissions, prices, activeTimers, now, svcVars, fanouts,
                   bookAcks, acceptAcks, startLog, hoursAcks, acc>>

\* driverCompletedRide taking the fare the driver app sent as the final fare
DriverCompletedRideClientFare(d, r, tenths, fare) ==
    CompleteRide(d, r, tenths, fare, fare)

\* socket.on("driverCompletedRide")
DriverCompletedRide(d, r, tenths, fare) ==
    LET calculatedFare ==
            IF r \in DOMAIN rideStore
            THEN RoundFare(tenths,
                           CompletionPrice(ToLowerCase(rideStore[r].rideType)))
            ELSE 0
    IN CompleteRide(d, r, tenths, fare, calculatedFare)

NextLifecycle ==
    \/ \E u \in Users, vt \in {"bike", "Taxi"} :
          /\ Len(bookAcks) < MaxLifecycleRides
          /\ BookRide(u, <<"C", "U", "S", "0", "0", "6", "5">>, vt, 54)
    \/ \E d \in Drivers, r \in RideIds : DriverAcceptedRideWithData(d, r)
    \/ \E d \in Drivers, r \in RideIds, otp \in SubmittedOtps :
          /\ Len(startLog) < MaxStarts
          /\ DriverStartedRide(d, r, otp)
    \/ \E d \in Drivers, r \in RideIds, otp \in SubmittedOtps :
          /\ Len(startLog) < MaxStarts
          /\ OtpVerified(d, r, otp)
    \/ \E d \in DriverIds, r \in RideIds, km \in CompleteDistances,
          fare \in ClientFares :
          /\ Len(completeAcks) < MaxCompletions
          /\ DriverCompletedRide(d, r, km, fare)

SpecLifecycle == Init /\ [][NextLifecycle]_vars

EventIndices(u, r, type) ==
    {i \in 1..Len(userEvents[u]) :
        userEvents[u][i].rideId = r /\ userEvents[u][i].type = type}

\* C1: for every completed ride, the events emitted to the passenger's room
\* contain a billAlert for the ride before each rideCompleted for it.
C1_BillAlertBeforeRideCompleted ==
    \A r \in DOMAIN rideStore :
        rideStore[r].status = "completed" =>
            LET u == rideStore[r].user
            IN /\ EventIndices(u, r, "billAlert") # {}
               /\ \A j \in EventIndices(u, r, "rideCompleted") :
                     \E i \in EventIndices(u, r, "billAlert") : i < j

\* C6: a ride's status becomes started, and the passenger is told that it has
\* started, only in a step that handles a start request whose submitted OTP
\* equals the OTP stored on the ride.
C6_StartedOnlyWithMatchingOtp ==
    [][\A r \in DOMAIN rideStore :
          LET u == rideStore[r].user
              becomesStarted == /\ rideStore[r].status # "started"
                                /\ rideStore'[r].status = "started"
              toldStarted ==
                  \E i \in (Len(userEvents[u]) + 1)..Len(userEvents'[u]) :
                      /\ userEvents'[u][i].rideId = r
                      /\ userEvents'[u][i].status = "started"
          IN (becomesStarted \/ toldStarted) =>
                /\ Len(startLog') = Len(startLog) + 1
                /\ startLog'[Len(startLog')].rideId = r
                /\ startLog'[Len(startLog')].otp = rideStore[r].otp]_vars

\* C8: every step that changes a driver's wallet appends exactly one
\* Transaction for that driver whose amount is the absolute change, whose
\* type matches the direction and whose balanceAfter is the new wallet; no
\* Transaction is appended for a driver whose wallet did not change.
C8_WalletMutationHasOneTransaction ==
    [][LET added == {i \in (Len(transactions) + 1)..Len(transactions') : TRUE}
       IN \A d \in DOMAIN driverStore :
             LET delta == driverStore'[d].wallet - driverStore[d].wallet
                 mine == {i \in added : transactions'[i].driver = d}
             IN IF delta = 0
                THEN mine = {}
                ELSE /\ Cardinality(mine) = 1
                     /\ \A i \in mine :
                           /\ transactions'[i].amount =
                                  (IF delta < 0 THEN 0 - delta ELSE delta)
                           /\ transactions'[i].type =
                                  (IF delta < 0 THEN "debit" ELSE "credit")
                           /\ "balanceAfter" \in DOMAIN transactions'[i]
                           /\ transactions'[i].balanceAfter =
                                  driverStore'[d].wallet]_vars

\* C9: every driver's wallet is at least 0 in every reachable state.
C9_DriverWalletNonNegative ==
    \A d \in DOMAIN driverStore : driverStore[d].wallet >= 0

-----------------------------------------------------------------------------
(* Fares: bookings and completions while the admin changes the prices *)

NextFare ==
    \/ \E u \in Users, vt \in {"bike", "Taxi"} :
          /\ Len(bookAcks) < MaxLifecycleRides
          /\ BookRide(u, <<"C", "U", "S", "0", "0", "6", "5">>, vt, 54)
    \/ \E vt \in {"bike", "taxi"}, p \in AdminPrices : UpdatePrices(vt, p)
    \/ \E d \in DriverIds, r \in RideIds, km \in CompleteDistances,
          fare \in ClientFares :
          /\ Len(completeAcks) < MaxCompletions
          /\ DriverCompletedRide(d, r, km, fare)

SpecFare == Init /\ [][NextFare]_vars

\* e is x / 10 rounded to the nearest integer, halves towards +infinity
IsRoundedTenth(e, x) == 10 * e - 5 <= x /\ x < 10 * e + 5

\* C7: a completion that is acknowledged as successful writes to the ride's
\* actualFare, adds to the completing driver's wallet and shows in billAlert
\* one amount, the distance times the per-km price in force for the ride's
\* vehicle type (the default price when none is set) rounded to the nearest
\* integer, whatever fare the driver app sent.
C7_FareIsRoundedDistanceTimesPrice ==
    [][(Len(completeAcks') = Len(completeAcks) + 1
        /\ completeAcks'[Len(completeAcks')].success)
       => LET ack == completeAcks'[Len(completeAcks')]
              r == ack.rideId
              d == ack.driver
              u == rideStore[r].user
              vt == rideStore[r].rideType
              price == IF prices[vt] > 0 THEN prices[vt]
                       ELSE CASE vt = "bike" -> 15
                              [] vt = "taxi" -> 40
                              [] OTHER -> 75
              amount == rideStore'[r].actualFare
              bills == {i \in (Len(userEvents[u]) + 1)..Len(userEvents'[u]) :
                          /\ userEvents'[u][i].type = "billAlert"
                          /\ userEvents'[u][i].rideId = r}
          IN /\ IsRoundedTenth(amount, ack.distance * price)
             /\ d \in DOMAIN driverStore =>
                   driverStore'[d].wallet = driverStore[d].wallet + amount
             /\ Cardinality(bills) = 1
             /\ \A i \in bills : userEvents'[u][i].fare = amount]_vars

\* a ride completed by a registered driver whose app sent a fare other than
\* the computed one, under a price set by the admin
C7_Witness ==
    \E i \in 1..Len(completeAcks) :
        LET ack == completeAcks[i]
        IN /\ ack.success
           /\ ack.driver \in DOMAIN driverStore
           /\ ack.rideId \in DOMAIN rideStore
           /\ rideStore[ack.rideId].status = "completed"
           /\ rideStore[ack.rideId].actualFare # ack.clientFare
           /\ rideStore[ack.rideId].actualFare = 110
           /\ prices[rideStore[ack.rideId].rideType] = 20

-----------------------------------------------------------------------------
(* Working hours: go-online start, go-offline stop, the countdown, expiry *)

\* a response of the working-hours endpoints, or an expiry outcome
HoursAck(op, d, success, message, amountDeducted, walletBalance, remainingSeconds) ==
    [op |-> op, driver |-> d, success |-> success, message |-> message,
     amountDeducted |-> amountDeducted, walletBalance |-> walletBalance,
     remainingSeconds |-> remainingSeconds, warningNumber |-> 0]

\* workingHoursWarning sent to the driver (push and realtime event)
WarningEvent(d, n, remainingSeconds, walletBalance) ==
    [op |-> "warning", driver |-> d, success |-> TRUE,
     message |-> "workingHoursWarning", amountDeducted |-> 0,
     walletBalance |-> walletBalance, remainingSeconds |-> remainingSeconds,
     warningNumber |-> n]

Transaction(d, amount, type, method) ==
    [driver |-> d, amount |-> amount, type |-> type, method |-> method]

\* requests and expiries handled so far (warnings are not counted)
HoursRequests ==
    Cardinality({i \in 1..Len(hoursAcks) : hoursAcks[i].op # "warning"})

ArmTimer(d, seconds) ==
    [x \in DOMAIN activeTimers \cup {d} |->
       IF x = d THEN seconds ELSE activeTimers[x]]

ClearTimer(d) == [x \in DOMAIN activeTimers \ {d} |-> activeTimers[x]]

\* driver.workingHoursDeductionAmount || 100
DeductionAmount(driver) ==
    IF driver.workingHoursDeductionAmount = 0 THEN AutoDebitAmount
    ELSE driver.workingHoursDeductionAmount

\* the driver is live with a running timer that is also held in memory
IsDuplicateStart(d) ==
    /\ driverStore[d].status = "Live"
    /\ driverStore[d].timerActive
    /\ d \in DOMAIN activeTimers

\* paid time is left and the timer was paused
IsResume(d) ==
    /\ driverStore[d].remainingWorkingSeconds > 0
    /\ ~driverStore[d].timerActive

\* startWorkingHoursTimer once it is decided whether the request repeats a
\* start and whether it resumes a paused session; otherwise a new shift is
\* paid from the wallet
StartShiftWith(d, duplicate, resume) ==
    /\ IF d \notin DOMAIN driverStore
       THEN /\ hoursAcks' = Append(hoursAcks,
                   HoursAck("start", d, FALSE, "Driver not found", 0, 0, 0))
            /\ UNCHANGED <<driverStore, transactions, activeTimers>>
       ELSE LET driver == driverStore[d]
            IN IF duplicate
               THEN /\ hoursAcks' = Append(hoursAcks,
                           HoursAck("start", d, TRUE, "Timer already running",
                                    0, driver.wallet, activeTimers[d]))
                    /\ UNCHANGED <<driverStore, transactions, activeTimers>>
               ELSE IF resume
               THEN /\ driverStore' = [driverStore EXCEPT
                                         ![d].timerActive = TRUE,
                                         ![d].status = "Live"]
                    /\ activeTimers' =
                           ArmTimer(d, driver.remainingWorkingSeconds)
                    /\ hoursAcks' = Append(hoursAcks,
                           HoursAck("start", d, TRUE,
                                    "Existing session resumed - no wallet deduction",
                                    0, driver.wallet,
                                    driver.remainingWorkingSeconds))
                    /\ UNCHANGED transactions
               ELSE IF driver.wallet < StartShiftCharge
               THEN /\ hoursAcks' = Append(hoursAcks,
                           HoursAck("start", d, FALSE,
                                    "Insufficient wallet balance", 0,
                                    driver.wallet,
                                    driver.remainingWorkingSeconds))
                    /\ UNCHANGED <<driverStore, transactions, activeTimers>>
               ELSE /\ driverStore' = [driverStore EXCEPT
                           ![d].wallet = @ - StartShiftCharge,
                           ![d].remainingWorkingSeconds =
                               driver.workingHoursLimit * SecondsPerHour,
                           ![d].warningsIssued = 0,
                           ![d].timerActive = TRUE,
                           ![d].status = "Live"]
                    /\ transactions' = Append(transactions,
                           Transaction(d, StartShiftCharge, "debit",
                                       "shift_start_fee"))
                    /\ activeTimers' =
                           ArmTimer(d, driver.workingHoursLimit * SecondsPerHour)
                    /\ hoursAcks' = Append(hoursAcks,
                           HoursAck("start", d, TRUE,
                                    "Timer started successfully",
                                    StartShiftCharge,
                                    driver.wallet - StartShiftCharge,
                                    driver.workingHoursLimit * SecondsPerHour))
    /\ UNCHANGED <<rideStore, userStore, raidSeq, activeDriverSockets, rooms,
                   rides, recentRideEmissions, prices, now, svcVars, userEvents,
                   fanouts, bookAcks, acceptAcks, startLog, completeAcks, acc>>

\* startWorkingHoursTimer that takes a paused session for a new shift
StartShiftResumeAsNewShift(d, duplicate) == StartShiftWith(d, duplicate, FALSE)

StartShift(d, duplicate) ==
    StartShiftWith(d, duplicate, d \in DOMAIN driverStore /\ IsResume(d))

\* startWorkingHoursTimer that never treats a request as a duplicate start
StartWorkingHoursTimerNoDuplicateCheck(d) == StartShift(d, FALSE)

\* POST /drivers/working-hours/start
StartWorkingHoursTimer(d) ==
    StartShift(d, d \in DOMAIN driverStore /\ IsDuplicateStart(d))

\* stopWorkingHoursTimer writing `saved` as the driver's remaining seconds
StopTimer(d, saved) ==
    /\ IF d \notin DOMAIN driverStore
       THEN /\ hoursAcks' = Append(hoursAcks,
                   HoursAck("stop", d, FALSE, "Driver not found", 0, 0, 0))
            /\ UNCHANGED <<driverStore, activeTimers>>
       ELSE /\ driverStore' = [driverStore EXCEPT
                                 ![d].remainingWorkingSeconds = saved,
                                 ![d].timerActive = FALSE,
                                 ![d].status = "Offline"]
            /\ activeTimers' = ClearTimer(d)
            /\ hoursAcks' = Append(hoursAcks,
                   HoursAck("stop", d, TRUE, "Timer stopped successfully", 0,
                            driverStore[d].wallet,
                            IF d \in DOMAIN activeTimers THEN activeTimers[d]
                            ELSE driverStore[d].remainingWorkingSeconds))
    /\ UNCHANGED <<rideStore, userStore, transactions, raidSeq,
                   activeDriverSockets, rooms, rides, recentRideEmissions,
                   prices, now, svcVars, userEvents, fanouts, bookAcks, acceptAcks,
                   startLog, completeAcks, acc>>

\* stopWorkingHoursTimer that leaves the stored remaining seconds as they were
StopWorkingHoursTimerNoSave(d) ==
    StopTimer(d, IF d \in DOMAIN driverStore
                 THEN driverStore[d].remainingWorkingSeconds ELSE 0)

\* POST /drivers/working-hours/stop: pause, no wallet mutation; the running
\* countdown is saved to the driver
StopWorkingHoursTimer(d) ==
    StopTimer(d, IF d \in DOMAIN activeTimers THEN activeTimers[d]
                 ELSE IF d \in DOMAIN driverStore
                 THEN driverStore[d].remainingWorkingSeconds ELSE 0)

WarningThresholds == <<3600, 1800, 600>>
Checkpoints == {30000, 3600, 1800, 600, 0}

\* the one-second ticks that take a running countdown from below `from` down
\* to t: a warning for every threshold reached on the way
TickFrom(d, t, from) ==
    LET crossed == SelectSeq(WarningThresholds,
                             LAMBDA th : t <= th /\ th < from)
    IN /\ d \in DOMAIN activeTimers
       /\ t < activeTimers[d]
       /\ activeTimers' = [activeTimers EXCEPT ![d] = t]
       /\ driverStore' = [driverStore EXCEPT
                            ![d].warningsIssued = @ + Len(crossed)]
       /\ hoursAcks' = hoursAcks \o
              [i \in 1..Len(crossed) |->
                 WarningEvent(d, driverStore[d].warningsIssued + i, crossed[i],
                              driverStore[d].wallet)]
       /\ UNCHANGED <<rideStore, userStore, transactions, raidSeq,
                      activeDriverSockets, rooms, rides, recentRideEmissions,
                      prices, now, svcVars, userEvents, fanouts, bookAcks, acceptAcks,
                      startLog, completeAcks, acc>>

\* ticks that warn again at the value the countdown was re-armed with
TimerTickWarnsAtStart(d, t) == TickFrom(d, t, activeTimers[d] + 1)

\* the countdown of a running timer advances to t
TimerTick(d, t) == TickFrom(d, t, activeTimers[d])

\* autoStopDriver once it is decided whether the wallet covers the deduction
ExpiryWith(d, sufficient) ==
    LET amount == DeductionAmount(driverStore[d])
    IN /\ d \in DOMAIN activeTimers
       /\ activeTimers[d] = 0
       /\ IF sufficient
          THEN /\ driverStore' = [driverStore EXCEPT
                      ![d].wallet = @ - amount,
                      ![d].remainingWorkingSeconds = 12 * SecondsPerHour,
                      ![d].warningsIssued = 0]
               /\ transactions' = Append(transactions,
                      Transaction(d, amount, "debit",
                                  "extended_hours_auto_debit"))
               /\ activeTimers' =
                      [activeTimers EXCEPT ![d] = 12 * SecondsPerHour]
               /\ hoursAcks' = Append(hoursAcks,
                      HoursAck("expiry", d, TRUE, "auto-debit", amount,
                               driverStore[d].wallet - amount,
                               12 * SecondsPerHour))
          ELSE /\ driverStore' = [driverStore EXCEPT
                      ![d].remainingWorkingSeconds = 0,
                      ![d].timerActive = FALSE,
                      ![d].status = "Offline"]
               /\ activeTimers' = ClearTimer(d)
               /\ hoursAcks' = Append(hoursAcks,
                      HoursAck("expiry", d, TRUE, "autoStop", 0,
                               driverStore[d].wallet, 0))
               /\ UNCHANGED transactions
       /\ UNCHANGED <<rideStore, userStore, raidSeq, activeDriverSockets,
                      rooms, rides, recentRideEmissions, prices, now, svcVars,
                      userEvents, fanouts, bookAcks, acceptAcks, startLog,
                      completeAcks, acc>>

\* autoStopDriver that debits whatever the balance is
TimerExpiryNoBalanceCheck(d) == ExpiryWith(d, TRUE)

\* autoStopDriver: the countdown of a running timer has reached 0
TimerExpiry(d) ==
    ExpiryWith(d, d \in DOMAIN driverStore
                  /\ driverStore[d].wallet >= DeductionAmount(driverStore[d]))

NextHours ==
    \/ \E d \in DriverIds :
          /\ HoursRequests < MaxHoursOps
          /\ StartWorkingHoursTimer(d)
    \/ \E d \in DriverIds :
          /\ HoursRequests < MaxHoursOps
          /\ StopWorkingHoursTimer(d)
    \/ \E d \in Drivers, t \in Checkpoints : TimerTick(d, t)
    \/ \E d \in Drivers :
          /\ HoursRequests < MaxHoursOps
          /\ TimerExpiry(d)

SpecHours == Init /\ [][NextHours]_vars

\* the working-hours requests and expiries handled for driver d, oldest first
HoursOpsOf(log, d) ==
    SelectSeq(log, LAMBDA a : a.driver = d /\ a.op # "warning")

IsOffline(a) ==
    \/ a.op = "stop" /\ a.success
    \/ a.op = "expiry" /\ a.message = "autoStop"

IsFeeStart(a) == a.op = "start" /\ a.amountDeducted = StartShiftCharge

Max(S) == CHOOSE x \in S : \A y \in S : y <= x
Min(S) == CHOOSE x \in S : \A y \in S : x <= y

LastOfflineBefore(ops, i) ==
    Max({0} \cup {k \in 1..(i - 1) : IsOffline(ops[k])})
NextOfflineAfter(ops, i) ==
    Min({Len(ops) + 1} \cup {k \in (i + 1)..Len(ops) : IsOffline(ops[k])})

\* shift-start fees charged in the online session that holds operation i
FeesInSession(ops, i) ==
    Cardinality({k \in (LastOfflineBefore(ops, i) + 1)..
                       (NextOfflineAfter(ops, i) - 1) : IsFeeStart(ops[k])})

\* the shift_start_fee Transactions of d are the fees its starts reported
FeesAreLedgered(d) ==
    Cardinality({i \in 1..Len(transactions) :
                    /\ transactions[i].driver = d
                    /\ transactions[i].method = "shift_start_fee"})
    = Cardinality({k \in 1..Len(HoursOpsOf(hoursAcks, d)) :
                    IsFeeStart(HoursOpsOf(hoursAcks, d)[k])})

\* C11 (as stated): every contiguous online session of a driver, however it
\* was entered, holds exactly one shift_start_fee Transaction.
C11_OneShiftFeePerOnlineSession ==
    \A d \in DOMAIN driverStore :
        LET ops == HoursOpsOf(hoursAcks, d)
        IN /\ FeesAreLedgered(d)
           /\ \A i \in 1..Len(ops) :
                 (ops[i].op = "start" /\ ops[i].success)
                    => FeesInSession(ops, i) = 1

\* C11 (amended): a contiguous online session holds one shift_start_fee
\* Transaction when it begins a new shift and none when it is entered by
\* resuming a shift that was paused with seconds remaining; auto-debit adds
\* none.
C11_ShiftFeeOnlyForNewShift ==
    \A d \in DOMAIN driverStore :
        LET ops == HoursOpsOf(hoursAcks, d)
        IN /\ FeesAreLedgered(d)
           /\ \A i \in 1..Len(ops) :
                 (ops[i].op = "start" /\ ops[i].success)
                    => LET off == LastOfflineBefore(ops, i)
                           resumed == off > 0 /\ ops[off].remainingSeconds > 0
                       IN FeesInSession(ops, i) = (IF resumed THEN 0 ELSE 1)

\* a paid shift was paused with time remaining and entered again
C11_Witness ==
    \E d \in DOMAIN driverStore :
        LET ops == HoursOpsOf(hoursAcks, d)
        IN /\ Len(ops) = 3
           /\ IsFeeStart(ops[1])
           /\ ops[2].op = "stop" /\ ops[2].success
           /\ ops[2].remainingSeconds > 0
           /\ ops[3].op = "start" /\ ops[3].success
           /\ ops[3].amountDeducted = 0

\* C12: a start request for a driver whose preceding operation was a stop
\* that left seconds remaining is a resume: it succeeds with amountDeducted
\* = 0, the wallet and the Transactions are unchanged and the timer is armed
\* with exactly the seconds the stop saved.
C12_StopThenStartResumes ==
    [][\A d \in DOMAIN driverStore :
          LET before == HoursOpsOf(hoursAcks, d)
              after == HoursOpsOf(hoursAcks', d)
          IN (/\ Len(after) = Len(before) + 1
              /\ after[Len(after)].op = "start"
              /\ Len(before) > 0
              /\ before[Len(before)].op = "stop"
              /\ before[Len(before)].success
              /\ before[Len(before)].remainingSeconds > 0)
             => /\ after[Len(after)].success
                /\ after[Len(after)].amountDeducted = 0
                /\ driverStore'[d].wallet = driverStore[d].wallet
                /\ transactions' = transactions
                /\ driverStore'[d].timerActive
                /\ driverStore'[d].status = "Live"
                /\ d \in DOMAIN activeTimers'
                /\ activeTimers'[d] = before[Len(before)].remainingSeconds
                /\ activeTimers'[d] = driverStore[d].remainingWorkingSeconds]_vars

\* a shift paused at 30000 seconds was resumed at 30000 seconds without a debit
C12_Witness ==
    \E d \in DOMAIN driverStore :
        LET ops == HoursOpsOf(hoursAcks, d)
        IN /\ Len(ops) = 3
           /\ IsFeeStart(ops[1])
           /\ ops[2].op = "stop" /\ ops[2].remainingSeconds = 30000
           /\ ops[3].op = "start" /\ ops[3].success
           /\ d \in DOMAIN activeTimers /\ activeTimers[d] = 30000
           /\ driverStore[d].wallet = ops[1].walletBalance
           /\ Len(transactions) = 1

\* the remaining-seconds values of the warnings sent to d in this step
NewWarnings(d) ==
    LET new == SelectSeq(SubSeq(hoursAcks', Len(hoursAcks) + 1, Len(hoursAcks')),
                         LAMBDA a : a.op = "warning" /\ a.driver = d)
    IN [i \in 1..Len(new) |-> new[i].remainingSeconds]

\* the thresholds a countdown passes or lands on when it leaves `from` for `to`
ThresholdsReached(from, to) ==
    (IF to <= 3600 /\ 3600 < from THEN <<3600>> ELSE <<>>)
    \o (IF to <= 1800 /\ 1800 < from THEN <<1800>> ELSE <<>>)
    \o (IF to <= 600 /\ 600 < from THEN <<600>> ELSE <<>>)

\* entry k gives driver d a fresh countdown: an expiry or a paid new shift
StartsNewCountdown(k, d) ==
    /\ hoursAcks[k].driver = d
    /\ hoursAcks[k].op = "expiry" \/ IsFeeStart(hoursAcks[k])

\* C14: in every step the warnings sent to a driver are exactly the
\* thresholds 3600, 1800, 600 that the driver's running countdown reaches in
\* that step, highest first, and none when the countdown does not advance
\* (stop, resume, re-arm at a threshold value); within one countdown the
\* warnings of a driver come in descending threshold order, numbered 1, 2, 3.
C14_WarningsExactlyAtThresholds ==
    /\ [][\A d \in Drivers :
            NewWarnings(d) =
               (IF /\ d \in DOMAIN activeTimers
                   /\ d \in DOMAIN activeTimers'
                   /\ activeTimers'[d] < activeTimers[d]
                THEN ThresholdsReached(activeTimers[d], activeTimers'[d])
                ELSE <<>>)]_vars
    /\ [](\A i \in 1..Len(hoursAcks) :
            hoursAcks[i].op = "warning" =>
               /\ hoursAcks[i].remainingSeconds \in {3600, 1800, 600}
               /\ hoursAcks[i].warningNumber =
                     (CASE hoursAcks[i].remainingSeconds = 3600 -> 1
                        [] hoursAcks[i].remainingSeconds = 1800 -> 2
                        [] OTHER -> 3)
               /\ \A j \in (i + 1)..Len(hoursAcks) :
                     (/\ hoursAcks[j].op = "warning"
                      /\ hoursAcks[j].driver = hoursAcks[i].driver
                      /\ ~\E k \in (i + 1)..(j - 1) :
                            StartsNewCountdown(k, hoursAcks[i].driver))
                     => hoursAcks[j].remainingSeconds
                           < hoursAcks[i].remainingSeconds)

\* warned at 3600, paused there, resumed, and next warned at 1800
C14_Witness ==
    \E d \in Drivers :
        LET log == SelectSeq(hoursAcks, LAMBDA a : a.driver = d)
        IN /\ Len(log) = 5
           /\ IsFeeStart(log[1])
           /\ log[2].op = "warning" /\ log[2].remainingSeconds = 3600
           /\ log[3].op = "stop" /\ log[3].remainingSeconds = 3600
           /\ log[4].op = "start" /\ log[4].success
           /\ log[5].op = "warning" /\ log[5].remainingSeconds = 1800

\* this step is the expiry of driver d's countdown
IsExpiryStep(d) ==
    /\ Len(hoursAcks') = Len(hoursAcks) + 1
    /\ hoursAcks'[Len(hoursAcks')].op = "expiry"
    /\ hoursAcks'[Len(hoursAcks')].driver = d

\* C15: when a driver's countdown reaches 0 with wallet >=
\* workingHoursDeductionAmount, the wallet is debited by that amount, exactly
\* one extended_hours_auto_debit Transaction of that amount is recorded, the
\* remaining seconds become 43200, warningsIssued becomes 0 and the timer
\* keeps running; with a smaller wallet the timer is removed, the driver is
\* Offline with timerActive false, autoStop is emitted, and the wallet and the
\* Transactions are unchanged.
C15_ExpiryDebitsOrStops ==
    [][\A d \in Drivers :
          IsExpiryStep(d) =>
             LET driver == driverStore[d]
                 amount == DeductionAmount(driver)
                 out    == hoursAcks'[Len(hoursAcks')]
             IN /\ activeTimers[d] = 0
                /\ IF driver.wallet >= amount
                   THEN /\ driverStore'[d].wallet = driver.wallet - amount
                        /\ transactions' = Append(transactions,
                               Transaction(d, amount, "debit",
                                           "extended_hours_auto_debit"))
                        /\ driverStore'[d].remainingWorkingSeconds = 43200
                        /\ driverStore'[d].warningsIssued = 0
                        /\ driverStore'[d].timerActive
                        /\ driverStore'[d].status = driver.status
                        /\ d \in DOMAIN activeTimers'
                        /\ activeTimers'[d] = 43200
                        /\ out.message = "auto-debit"
                   ELSE /\ d \notin DOMAIN activeTimers'
                        /\ driverStore'[d].status = "Offline"
                        /\ ~driverStore'[d].timerActive
                        /\ out.message = "autoStop"
                        /\ driverStore'[d].wallet = driver.wallet
                        /\ transactions' = transactions]_vars

\* a countdown that expired with enough money and was extended, then expired
\* again with too little and stopped the driver
C15_Witness ==
    \E d \in Drivers :
        LET ops == HoursOpsOf(hoursAcks, d)
        IN /\ Len(ops) = 3
           /\ IsFeeStart(ops[1])
           /\ ops[2].op = "expiry" /\ ops[2].message = "auto-debit"
           /\ ops[3].op = "expiry" /\ ops[3].message = "autoStop"
           /\ driverStore[d].wallet = ops[2].walletBalance
           /\ driverStore[d].status = "Offline"
           /\ Len(transactions) = 2

-----------------------------------------------------------------------------
(* Presence: the realtime handlers that touch a driver's presence entry or *)
(* stored document                                                         *)

\* socket.on("driverOffline")
DriverOffline(d) ==
    /\ d \in DOMAIN activeDriverSockets
    /\ activeDriverSockets' =
           [activeDriverSockets EXCEPT ![d].status = "offline",
                                       ![d].isOnline = FALSE]
    /\ driverLocations' = SaveDriverLocationToDB(d, "offline")
    /\ UNCHANGED <<storeVars, rooms, rides, recentRideEmissions, prices,
                   activeTimers, now, callVars, outVars, acc>>

LocationStatuses == {"none", "onRide"}

\* socket.on("driverLocationUpdate"): status || "Live"
DriverLocationUpdate(d, status) ==
    /\ d \in DOMAIN activeDriverSockets
    /\ activeDriverSockets' =
           [activeDriverSockets EXCEPT
              ![d].status = IF status = "none" THEN "Live" ELSE status,
              ![d].lastUpdate = now,
              ![d].isOnline = TRUE]
    /\ driverLocations' =
           SaveDriverLocationToDB(d, IF status = "none" THEN "Live" ELSE status)
    /\ UNCHANGED <<storeVars, rooms, rides, recentRideEmissions, prices,
                   activeTimers, now, callVars, outVars, acc>>

FcmTokens == {"none", "tok1"}

\* socket.on("updateFCMToken"): updateDriverFCMToken unless the token is missing
UpdateFCMToken(d, fcmToken) ==
    /\ fcmToken # "none"
    /\ d \in DOMAIN driverStore
    /\ driverStore' = [driverStore EXCEPT ![d].fcmToken = fcmToken]
    /\ UNCHANGED <<rideStore, userStore, transactions, raidSeq, memVars, now, svcVars,
                   outVars, acc>>

NextPresence ==
    \/ \E d \in Drivers, vt \in {"bike", "Taxi"} : RegisterDriver("s1", d, vt)
    \/ \E s \in Sockets, d \in Drivers : DriverGoOnline(s, d)
    \/ \E d \in Drivers : DriverOffline(d)
    \/ \E d \in Drivers :
          /\ HoursRequests < MaxHoursOps
          /\ StartWorkingHoursTimer(d)
    \/ \E d \in Drivers :
          /\ HoursRequests < MaxHoursOps
          /\ StopWorkingHoursTimer(d)

SpecPresence == Init /\ [][NextPresence]_vars

\* the driver is neither running a timer nor resuming one and cannot pay
NeedsShiftWithoutFunds(d) ==
    /\ ~IsDuplicateStart(d)
    /\ ~IsResume(d)
    /\ driverStore[d].wallet < StartShiftCharge

\* C13: a go-online request (realtime driverGoOnline or working-hours start)
\* for a driver who needs a new shift and has less than 100 in the wallet is
\* answered with the insufficient-balance failure and changes nothing: the
\* stored driver, the timers, the presence map and the Transactions stay as
\* they were.
C13_GoOnlineWithoutFundsChangesNothing ==
    [][\A d \in DOMAIN driverStore :
          (/\ NeedsShiftWithoutFunds(d)
           /\ \/ \E s \in Sockets : DriverGoOnline(s, d)
              \/ StartWorkingHoursTimer(d))
          => /\ driverStore' = driverStore
             /\ activeTimers' = activeTimers
             /\ activeDriverSockets' = activeDriverSockets
             /\ transactions' = transactions
             /\ Len(hoursAcks') = Len(hoursAcks) + 1
             /\ ~hoursAcks'[Len(hoursAcks')].success
             /\ hoursAcks'[Len(hoursAcks')].message =
                   "Insufficient wallet balance"]_vars

-----------------------------------------------------------------------------
(* The handlers that write the stored driver document *)

NextDriverDoc ==
    \/ \E d \in Drivers, vt \in {"bike", "Taxi"} : RegisterDriver("s1", d, vt)
    \/ \E d \in Drivers : DriverGoOnline("s1", d)
    \/ \E d \in Drivers, st \in LocationStatuses : DriverLocationUpdate(d, st)
    \/ \E d \in Drivers, tok \in FcmTokens : UpdateFCMToken(d, tok)
    \/ \E u \in Users :
          /\ Len(bookAcks) < MaxLifecycleRides
          /\ \A r \in DOMAIN rideStore : rideStore[r].status = "completed"
          /\ BookRide(u, <<"C", "U", "S", "0", "0", "6", "5">>, "Taxi", 54)
    \/ \E r \in DOMAIN rideStore : AcceptFindOne("s1", "DRV001", r)
    \/ AcceptUpdate("DRV001")
    \/ AcceptRespond("DRV001")
    \/ \E r \in DOMAIN rideStore :
          /\ Len(completeAcks) < MaxCompletions
          /\ DriverCompletedRide("DRV001", r, 55, 83)

SpecDriverDoc == Init /\ [][NextDriverDoc]_vars

\* C17: no step of registerDriver, driverGoOnline, bookRide, acceptRide,
\* driverCompletedRide, updateFCMToken or a location update changes the
\* vehicleType of a stored driver, and no stored driver disappears.
C17_DriverVehicleTypeNeverChanges ==
    [][\A d \in DOMAIN driverStore :
          /\ d \in DOMAIN driverStore'
          /\ driverStore'[d].vehicleType = driverStore[d].vehicleType]_vars

\* a bike driver who registered, has a new push token and was credited for a
\* completed taxi ride is still stored as a bike driver
C17_Witness ==
    /\ "DRV001" \in DOMAIN activeDriverSockets
    /\ driverStore["DRV001"].status = "Live"
    /\ driverStore["DRV001"].fcmToken = "tok1"
    /\ driverStore["DRV001"].wallet > 250
    /\ driverStore["DRV001"].vehicleType = "bike"
    /\ \E r \in DOMAIN rideStore :
          /\ rideStore[r].rideType = "taxi"
          /\ rideStore[r].status = "completed"

\* C18: a registerDriver step has the same outcome whatever vehicle type the
\* client sent: the step taken for one client value is also the step for any
\* other, so the presence entry's vehicleType and the room joined depend on
\* the stored driver alone.
C18_RegisterIgnoresClientVehicleType ==
    [][\A s \in Sockets, d \in DriverIds :
          \A vt1, vt2 \in ClientVehicleTypes :
              RegisterDriver(s, d, vt1) =>
                 /\ activeDriverSockets'[d].vehicleType =
                       ActualVehicleType(d, vt2)
                 /\ VehicleRoom(ActualVehicleType(d, vt2)) \in rooms'[s]
                 /\ RegisterDriver(s, d, vt2)]_vars

\* C19: once a stored ride has a driver, no step gives it a different driver
\* or takes the driver away.
C19_RideDriverNeverReplaced ==
    [][\A r \in DOMAIN rideStore :
          rideStore[r].driverId # NoDriver =>
             /\ r \in DOMAIN rideStore'
             /\ rideStore'[r].driverId = rideStore[r].driverId]_vars

\* the place of a status on the path pending, accepted, arrived, started,
\* completed
StatusRank(status) ==
    CASE status \in {"pending", "searching"} -> 0
      [] status = "accepted" -> 1
      [] status = "arrived" -> 2
      [] status = "started" -> 3
      [] status = "completed" -> 4
      [] OTHER -> 5

\* C20: in every step a stored ride's status stays where it is, moves forward
\* on pending, accepted, arrived, started, completed, or becomes cancelled;
\* the status of a completed or cancelled ride never changes.
C20_RideStatusOnlyMovesForward ==
    [][\A r \in DOMAIN rideStore :
          /\ r \in DOMAIN rideStore'
          /\ \/ rideStore'[r].status = rideStore[r].status
             \/ /\ rideStore[r].status \notin {"completed", "cancelled"}
                /\ \/ rideStore'[r].status = "cancelled"
                   \/ StatusRank(rideStore'[r].status)
                         > StatusRank(rideStore[r].status)]_vars

-----------------------------------------------------------------------------
(* The ride document through its whole life *)

MaxRejections == 1

\* rejectRide: refused unless the ride is stored and still pending or
\* searching; the ride document is not written, the driver's presence entry
\* goes back to Live, the passenger is told, the cached ride records who
\* rejected
RejectRide(d, r) ==
    IF r \in DOMAIN rideStore /\ rideStore[r].status \in {"pending", "searching"}
    THEN /\ activeDriverSockets' =
                IF d \in DOMAIN activeDriverSockets
                THEN [activeDriverSockets EXCEPT ![d].status = "Live",
                                                 ![d].isOnline = TRUE]
                ELSE activeDriverSockets
         /\ userEvents' = EmitToUser(rideStore[r].user,
                UserEvent("driverRejectedRide", r, d, 0, rideStore[r].status))
         /\ rides' = IF r \in DOMAIN rides
                     THEN [rides EXCEPT ![r].rejectedBy = Append(@, d)]
                     ELSE rides
         /\ UNCHANGED <<storeVars, rooms, recentRideEmissions, prices,
                        activeTimers, now, svcVars, fanouts, bookAcks, acceptAcks,
                        startLog, completeAcks, hoursAcks, acc>>
    ELSE UNCHANGED vars

\* drivers that rejected ride r while it was offered
Rejections(r) ==
    IF r \in DOMAIN rideStore
    THEN Cardinality({i \in 1..Len(userEvents[rideStore[r].user]) :
            /\ userEvents[rideStore[r].user][i].type = "driverRejectedRide"
            /\ userEvents[rideStore[r].user][i].rideId = r})
    ELSE 0

MaxRideDocRequests == 4

\* accept, reject, start and completion requests handled so far
RideDocRequests ==
    acc["DRV001"].calls + acc["DRV002"].calls + Len(startLog)
    + Len(completeAcks)
    + Cardinality({i \in 1..Len(userEvents["u1"]) :
                      userEvents["u1"][i].type = "driverRejectedRide"})

\* the passenger books the next ride when the earlier ones are completed
NextRideDoc ==
    \/ \E u \in Users :
          /\ Len(bookAcks) < MaxLifecycleRides
          /\ \A r \in DOMAIN rideStore : rideStore[r].status = "completed"
          /\ BookRide(u, <<"C", "U", "S", "0", "0", "6", "5">>, "Taxi", 54)
    \/ RegisterDriver("s1", "DRV001", "bike")
    \/ DriverLocationUpdate("DRV001", "onRide")
    \/ \E r \in DOMAIN rideStore :
          /\ RideDocRequests < MaxRideDocRequests
          /\ Rejections(r) < MaxRejections
          /\ RejectRide("DRV001", r)
    \/ \E r \in DOMAIN rideStore :
          /\ RideDocRequests < MaxRideDocRequests
          /\ AcceptFindOne("s1", "DRV001", r)
    \/ AcceptUpdate("DRV001")
    \/ AcceptRespond("DRV001")
    \/ \E r \in DOMAIN rideStore :
          /\ RideDocRequests < MaxRideDocRequests
          /\ DriverAcceptedRideWithData("DRV002", r)
    \/ \E r \in DOMAIN rideStore :
          /\ RideDocRequests < MaxRideDocRequests
          /\ Len(startLog) < MaxStarts
          /\ DriverStartedRide("DRV001", r, rideStore[r].otp)
    \/ \E r \in DOMAIN rideStore :
          /\ RideDocRequests < MaxRideDocRequests
          /\ Len(completeAcks) < MaxCompletions
          /\ DriverCompletedRide("DRV001", r, 55, 83)

SpecRideDoc == Init /\ [][NextRideDoc]_vars

\* C16: a stored ride keeps the vehicle type, the otp and the fare it was
\* created with through every accept, reject, start, completion and driver
\* location update, and no stored ride disappears.
C16_RideTypeOtpFareNeverChange ==
    [][\A r \in DOMAIN rideStore :
          /\ r \in DOMAIN rideStore'
          /\ rideStore'[r].rideType = rideStore[r].rideType
          /\ rideStore'[r].otp = rideStore[r].otp
          /\ rideStore'[r].fare = rideStore[r].fare]_vars

\* a ride that was rejected, then accepted, started and completed with an
\* actual fare other than the booked one, and still has the booked fare
C16_Witness ==
    \E r \in DOMAIN rideStore :
        /\ rideStore[r].status = "completed"
        /\ rideStore[r].actualFare # rideStore[r].fare
        /\ rideStore[r].fare = BookingFare(rideStore[r].rideType, 54)
        /\ rideStore[r].driverId # NoDriver
        /\ Rejections(r) > 0
        /\ Len(startLog) > 0 /\ startLog[1].found
        /\ \E d \in DOMAIN activeDriverSockets :
              activeDriverSockets[d].status = "onRide"

-----------------------------------------------------------------------------
(* What the completion tells the passenger *)

\* C21: no rideCompleted event sent to a passenger carries a terminal status
\* (completed or cancelled); an event that carries the status completed is a
\* rideStatusUpdate.
C21_RideCompletedHasNoTerminalStatus ==
    \A u \in Users : \A i \in 1..Len(userEvents[u]) :
        LET ev == userEvents[u][i]
        IN /\ ev.type = "rideCompleted" =>
                ev.status \notin {"completed", "cancelled"}
           /\ ev.status = "completed" => ev.type = "rideStatusUpdate"

-----------------------------------------------------------------------------
(* The RAID_ID sequence *)

MaxAllocations == 12

\* counter values the sequence document can hold: absent (upserted from 0),
\* short numbers, the initial value, and values just below the roll-over
StartSequences == {0, 8, 98, 998, 9998, 99998, 100000, 999996}

\* one call of generateSequentialRaidId, calls not overlapping
GenerateSequentialRaidId ==
    /\ raidSeq' = NextSequence(raidSeq)
    /\ raidIds' = Append(raidIds, FormatRaidId(NextSequence(raidSeq)))
    /\ UNCHANGED <<rideStore, driverStore, userStore, transactions, memVars,
                   outVars, pushes, hoursLoaded, raidCalls, locationEmits,
                   driverLocations, now, acc>>

InitRaidId ==
    \E sequence \in StartSequences :
        InitWith(sequence, [vt \in VehicleTypes |-> FallbackPrice(vt)])

NextRaidId ==
    /\ Len(raidIds) < MaxAllocations
    /\ GenerateSequentialRaidId

SpecRaidId == InitRaidId /\ [][NextRaidId]_vars

RID999999 == <<"R", "I", "D", "9", "9", "9", "9", "9", "9">>
RID100000 == <<"R", "I", "D", "1", "0", "0", "0", "0", "0">>
RID100001 == <<"R", "I", "D", "1", "0", "0", "0", "0", "1">>

\* C22: with calls that do not overlap, the id allocated directly after
\* RID999999 is RID100000 and the one after that is RID100001; every id
\* allocated from the sequence is RID followed by exactly six decimal digits.
C22_SequenceRollsOverInSixDigits ==
    \A i \in 1..Len(raidIds) :
        /\ Len(raidIds[i]) = 9
        /\ SubSeq(raidIds[i], 1, 3) = <<"R", "I", "D">>
        /\ \A k \in 4..9 :
              \E j \in 1..10 : raidIds[i][k] = DecimalDigits[j]
        /\ (raidIds[i] = RID999999 /\ i + 1 <= Len(raidIds))
              => raidIds[i + 1] = RID100000
        /\ (raidIds[i] = RID999999 /\ i + 2 <= Len(raidIds))
              => raidIds[i + 2] = RID100001

\* the sequence went through RID999999, RID100000, RID100001
C22_Witness ==
    \E i \in 1..Len(raidIds) :
        /\ i + 2 <= Len(raidIds)
        /\ raidIds[i] = RID999999
        /\ raidIds[i + 1] = RID100000
        /\ raidIds[i + 2] = RID100001

-----------------------------------------------------------------------------
(* The sign of the fare *)

\* prices per km the cache can hold for a vehicle type: negative, zero, small
\* and ordinary; PartialPrices has no entry for taxi and port
CachedPrices == {-20, 0, 4, 20}
PartialPrices == [vt \in {"bike"} |-> 20]
PriceTables == [VehicleTypes -> CachedPrices] \cup {PartialPrices}

\* distances above zero, in tenths of a km
PositiveDistances == {1, 54}

InitFareSign ==
    \E priceTable \in PriceTables : InitWith(SeqInitial, priceTable)

NextFareSign ==
    \/ \E u \in Users, vt \in {"bike", "Taxi"}, tenths \in PositiveDistances :
          /\ Len(bookAcks) < MaxLifecycleRides
          /\ BookRide(u, <<"C", "U", "S", "0", "0", "6", "5">>, vt, tenths)
    \/ \E r \in DOMAIN rideStore, tenths \in PositiveDistances :
          /\ Len(completeAcks) < MaxCompletions
          /\ DriverCompletedRide("DRV001", r, tenths, 83)

SpecFareSign == InitFareSign /\ [][NextFareSign]_vars

\* C23: for a positive distance the fare stored at booking and the fare
\* computed at completion are above zero, whatever the cached price of the
\* vehicle type is (missing, zero, negative or positive).
C23_FareAbovePositiveDistanceIsPositive ==
    /\ \A r \in DOMAIN rideStore :
          rideStore[r].distanceKm > 0 => rideStore[r].fare > 0
    /\ \A i \in 1..Len(completeAcks) :
          (completeAcks[i].success /\ completeAcks[i].distance > 0)
             => completeAcks[i].fare > 0

-----------------------------------------------------------------------------
(* Push notifications *)

MaxRetries == 1

\* socket.on("retryFCMNotification"): the ride must be stored; the push goes
\* to every stored driver with status Live and a push token
RetryFCMNotification(r) ==
    LET driversWithFCM == {d \in DOMAIN driverStore :
                             /\ driverStore[d].status = "Live"
                             /\ driverStore[d].fcmToken # "none"}
    IN IF r \in DOMAIN rideStore /\ driversWithFCM # {}
       THEN /\ pushes' = Append(pushes,
                   PushSend("retry", r, rideStore[r].rideType, driversWithFCM,
                            TRUE))
            /\ UNCHANGED <<storeVars, memVars, outVars, raidIds, hoursLoaded,
                           raidCalls, locationEmits, driverLocations,
                           now, acc>>
       ELSE UNCHANGED vars

\* retry pushes sent so far
Retries ==
    Cardinality({i \in 1..Len(pushes) : pushes[i].kind = "retry"})

NextPush ==
    \/ \E d \in Drivers : RegisterDriver("s1", d, "bike")
    \/ \E d \in Drivers : UpdateFCMToken(d, "tok1")
    \/ \E u \in Users, vt \in {"bike", "Taxi"} :
          /\ Len(bookAcks) < MaxLifecycleRides
          /\ BookRide(u, <<"C", "U", "S", "0", "0", "6", "5">>, vt, 54)
    \/ \E u \in Users, vt \in {"bike", "Taxi"} :
          /\ Len(bookAcks) < MaxLifecycleRides
          /\ BookRideFcmFails(u, <<"C", "U", "S", "0", "0", "6", "5">>, vt, 54)
    \/ \E r \in RideIds :
          /\ Retries < MaxRetries
          /\ RetryFCMNotification(r)

SpecPush == Init /\ [][NextPush]_vars

\* this step attempted a push send
IsPushStep == Len(pushes') = Len(pushes) + 1

\* C24: when the push send of a booking fails, the ride is stored as pending,
\* newRideRequest is emitted to the room of the ride's vehicle type, and the
\* caller is acknowledged with success true.
C24_PushFailureDoesNotPropagate ==
    [][(/\ IsPushStep
        /\ pushes'[Len(pushes')].kind = "booking"
        /\ ~pushes'[Len(pushes')].ok)
       => LET r == pushes'[Len(pushes')].rideId
          IN /\ r \notin DOMAIN rideStore
             /\ r \in DOMAIN rideStore'
             /\ rideStore'[r].status = "pending"
             /\ Len(fanouts') = Len(fanouts) + 1
             /\ fanouts'[Len(fanouts')].rideId = r
             /\ fanouts'[Len(fanouts')].room =
                   VehicleRoom(rideStore'[r].rideType)
             /\ Len(bookAcks') = Len(bookAcks) + 1
             /\ bookAcks'[Len(bookAcks')].rideId = r
             /\ bookAcks'[Len(bookAcks')].success]_vars

\* a booking whose push to a waiting driver failed: the ride is pending, the
\* request was emitted to a registered driver's socket, the caller has success
C24_Witness ==
    \E i \in 1..Len(pushes) :
        /\ pushes[i].kind = "booking"
        /\ ~pushes[i].ok
        /\ pushes[i].recipients # {}
        /\ pushes[i].rideId \in DOMAIN rideStore
        /\ rideStore[pushes[i].rideId].status = "pending"
        /\ \E k \in 1..Len(fanouts) :
              /\ fanouts[k].rideId = pushes[i].rideId
              /\ fanouts[k].recipients # {}
        /\ \E k \in 1..Len(bookAcks) :
              /\ bookAcks[k].rideId = pushes[i].rideId
              /\ bookAcks[k].success

\* C25: every push sent for a ride, at booking or on a retry, goes only to
\* stored drivers whose vehicleType is the ride's and whose status is online
\* (Live, online or available).
C25_PushOnlyToMatchingOnlineDrivers ==
    [][IsPushStep =>
          LET push == pushes'[Len(pushes')]
          IN \A d \in push.recipients :
                /\ d \in DOMAIN driverStore
                /\ driverStore[d].vehicleType = rideStore'[push.rideId].rideType
                /\ driverStore[d].status \in {"Live", "online", "available"}]_vars

-----------------------------------------------------------------------------
(* Completion: repeated calls, failing store writes, payment by wallet *)

MaxRepeatCompletions == 2
MaxCredits == 1
CreditAmounts == {50}

\* POST /credit-ride: the passenger's walletBalance is credited, a
\* ride_payment Transaction is recorded, the ride is marked as paid by wallet,
\* walletUpdate is emitted to the passenger
CreditRide(r, amount, u) ==
    IF r \in DOMAIN rideStore /\ u \in DOMAIN userStore
    THEN /\ userStore' = [userStore EXCEPT ![u].walletBalance = @ + amount]
         /\ transactions' = Append(transactions,
                Transaction(NoDriver, amount, "credit", "ride_payment"))
         /\ rideStore' = [rideStore EXCEPT ![r].paymentMethod = "wallet"]
         /\ userEvents' = EmitToUser(u,
                UserEvent("walletUpdate", r, NoDriver,
                          userStore[u].walletBalance + amount, "wallet"))
         /\ UNCHANGED <<driverStore, raidSeq, memVars, svcVars, now, fanouts,
                        bookAcks, acceptAcks, startLog, completeAcks,
                        hoursAcks, acc>>
    ELSE UNCHANGED vars

\* the store writes of driverCompletedRide that can throw
ThrowingWrites == {"ride.save", "Driver.findOneAndUpdate"}

\* driverCompletedRide in which the store write `at` throws: the writes before
\* it stay, the catch acknowledges success false
DriverCompletedRideThrows(d, r, tenths, fare, at) ==
    LET calculatedFare ==
            RoundFare(tenths,
                      CompletionPrice(ToLowerCase(rideStore[r].rideType)))
    IN /\ r \in DOMAIN rideStore
       /\ rideStore' =
              IF at = "ride.save" THEN rideStore
              ELSE [rideStore EXCEPT
                      ![r] = CompletedRide(@, tenths, calculatedFare)]
       /\ completeAcks' = Append(completeAcks,
              CompleteAck(d, r, tenths, fare, FALSE, "Server error", 0, 0))
       /\ UNCHANGED <<driverStore, userStore, transactions, raidSeq, memVars,
                      svcVars, now, userEvents, fanouts, bookAcks, acceptAcks,
                      startLog, hoursAcks, acc>>

\* /credit-ride calls handled so far
Credits ==
    Cardinality({i \in 1..Len(transactions) :
                    transactions[i].method = "ride_payment"})

NextCompletion ==
    \/ \E u \in Users, vt \in {"bike", "Taxi"} :
          /\ Len(bookAcks) < MaxLifecycleRides
          /\ BookRide(u, <<"C", "U", "S", "0", "0", "6", "5">>, vt, 14)
    \/ \E r \in DOMAIN rideStore, amount \in CreditAmounts, u \in Users :
          /\ Credits < MaxCredits
          /\ CreditRide(r, amount, u)
    \/ \E d \in Drivers, r \in DOMAIN rideStore, tenths \in {15, 55} :
          /\ Len(completeAcks) < MaxRepeatCompletions
          /\ DriverCompletedRide(d, r, tenths, 83)
    \/ \E r \in DOMAIN rideStore, at \in ThrowingWrites :
          /\ Len(completeAcks) < MaxRepeatCompletions
          /\ DriverCompletedRideThrows("DRV001", r, 55, 83, at)

SpecCompletion == Init /\ [][NextCompletion]_vars

\* the wallets of all drivers and of all passengers
Wallets ==
    <<[d \in DOMAIN driverStore |-> driverStore[d].wallet],
      [u \in DOMAIN userStore |-> userStore[u].wallet]>>

\* the acknowledgement this step added to completeAcks
NewCompleteAck == completeAcks'[Len(completeAcks')]

IsCompletionStep == Len(completeAcks') = Len(completeAcks) + 1

\* C26: a completion of a ride that was already completed with success
\* changes no driver's and no passenger's wallet, so each ride credits the
\* driver and debits the passenger at most once.
C26_RideCreditedAndDebitedAtMostOnce ==
    [][(/\ IsCompletionStep
        /\ \E i \in 1..Len(completeAcks) :
              /\ completeAcks[i].rideId = NewCompleteAck.rideId
              /\ completeAcks[i].success)
       => Wallets' = Wallets]_vars

\* C27: a completion acknowledged with success false leaves the ride's stored
\* status, every driver's wallet and every passenger's wallet as they were
\* and emits nothing to the passenger.
C27_FailedCompletionChangesNothing ==
    [][(IsCompletionStep /\ ~NewCompleteAck.success)
       => /\ \A r \in DOMAIN rideStore :
                rideStore'[r].status = rideStore[r].status
          /\ Wallets' = Wallets
          /\ userEvents' = userEvents]_vars

-----------------------------------------------------------------------------
(* Live drivers and their working hours *)

\* C30: a stored driver whose status is Live has a running working-hours
\* timer or working time left, also after registerDriver and after a ride
\* completion.
C30_LiveDriverHasWorkingTime ==
    \A d \in DOMAIN driverStore :
        driverStore[d].status = "Live"
            => \/ driverStore[d].timerActive
               \/ driverStore[d].remainingWorkingSeconds > 0

-----------------------------------------------------------------------------
(* Working-hours debits against ride credits on one driver document *)

MaxDebits == 2

WalletDebits ==
    {"shift_start_fee", "extended_hours_auto_debit", "extended_hours_purchase"}

\* START_SHIFT_CHARGE for a shift start, driver.workingHoursDeductionAmount ||
\* 100 for an auto-debit and for a purchase
DebitAmount(driver, method) ==
    IF method = "shift_start_fee" THEN StartShiftCharge
    ELSE DeductionAmount(driver)

\* the working-hours service loads the driver document it is going to debit
DebitFindDriver(d, method) ==
    /\ d \in DOMAIN driverStore
    /\ d \notin DOMAIN hoursLoaded
    /\ driverStore[d].wallet >= DebitAmount(driverStore[d], method)
    /\ CASE method = "shift_start_fee" ->
                ~IsDuplicateStart(d) /\ ~IsResume(d)
         [] method = "extended_hours_auto_debit" ->
                d \in DOMAIN activeTimers /\ activeTimers[d] = 0
         [] OTHER ->
                d \in DOMAIN activeTimers /\ driverStore[d].timerActive
    /\ hoursLoaded' =
           [x \in DOMAIN hoursLoaded \cup {d} |->
              IF x = d THEN [doc |-> driverStore[d], method |-> method]
              ELSE hoursLoaded[x]]
    /\ UNCHANGED <<storeVars, memVars, outVars, raidIds, pushes, raidCalls,
                   locationEmits, driverLocations, now, acc>>

\* the paths of the loaded document the service has modified, written over
\* the stored document by driver.save()
DebitedDriver(stored, loaded, method) ==
    CASE method = "shift_start_fee" ->
            [stored EXCEPT
               !.wallet = loaded.wallet - DebitAmount(loaded, method),
               !.remainingWorkingSeconds =
                   loaded.workingHoursLimit * SecondsPerHour,
               !.warningsIssued = 0,
               !.timerActive = TRUE,
               !.status = "Live"]
      [] method = "extended_hours_auto_debit" ->
            [stored EXCEPT
               !.wallet = loaded.wallet - DebitAmount(loaded, method),
               !.remainingWorkingSeconds = 12 * SecondsPerHour,
               !.warningsIssued = 0]
      [] OTHER ->
            [stored EXCEPT
               !.wallet = loaded.wallet - DebitAmount(loaded, method),
               !.remainingWorkingSeconds =
                   loaded.remainingWorkingSeconds + 12 * SecondsPerHour,
               !.warningsIssued = 0]

\* the service records the Transaction and saves the document it loaded
DebitSave(d) ==
    /\ d \in DOMAIN hoursLoaded
    /\ LET loaded == hoursLoaded[d].doc
           method == hoursLoaded[d].method
           amount == DebitAmount(loaded, method)
           debited == DebitedDriver(driverStore[d], loaded, method)
       IN /\ driverStore' = [driverStore EXCEPT ![d] = debited]
          /\ transactions' = Append(transactions,
                 Transaction(d, amount, "debit", method))
          /\ activeTimers' =
                 IF method = "extended_hours_purchase"
                 THEN [activeTimers EXCEPT ![d] = @ + 12 * SecondsPerHour]
                 ELSE ArmTimer(d, debited.remainingWorkingSeconds)
          /\ hoursAcks' = Append(hoursAcks,
                 HoursAck(method, d, TRUE, "wallet debited", amount,
                          debited.wallet, debited.remainingWorkingSeconds))
    /\ hoursLoaded' = [x \in DOMAIN hoursLoaded \ {d} |-> hoursLoaded[x]]
    /\ UNCHANGED <<rideStore, userStore, raidSeq, activeDriverSockets, rooms,
                   rides, recentRideEmissions, prices, now, raidIds, pushes,
                   raidCalls, locationEmits, driverLocations, userEvents,
                   fanouts, bookAcks,
                   acceptAcks, startLog, completeAcks, acc>>

\* debits started so far
DebitsStarted ==
    Cardinality({i \in 1..Len(transactions) : transactions[i].type = "debit"})
        + Cardinality(DOMAIN hoursLoaded)

NextWalletRace ==
    \/ \E u \in Users :
          /\ Len(bookAcks) < MaxLifecycleRides
          /\ \A r \in DOMAIN rideStore : rideStore[r].status = "completed"
          /\ BookRide(u, <<"C", "U", "S", "0", "0", "6", "5">>, "bike", 54)
    \/ \E d \in Drivers, r \in DOMAIN rideStore :
          /\ Len(completeAcks) < MaxCompletions
          /\ rideStore[r].status # "completed"
          /\ DriverCompletedRide(d, r, 55, 83)
    \/ \E d \in Drivers, method \in WalletDebits :
          /\ DebitsStarted < MaxDebits
          /\ DebitFindDriver(d, method)
    \/ \E d \in Drivers : DebitSave(d)
    \/ \E d \in Drivers : TimerTick(d, 0)

SpecWalletRace == Init /\ [][NextWalletRace]_vars

RECURSIVE SumUpTo(_, _)
SumUpTo(amounts, n) ==
    IF n = 0 THEN 0 ELSE amounts[n] + SumUpTo(amounts, n - 1)

\* what the recorded debit Transactions of driver d add up to
DebitsOf(d) ==
    SumUpTo([i \in 1..Len(transactions) |->
               IF transactions[i].driver = d /\ transactions[i].type = "debit"
               THEN transactions[i].amount ELSE 0],
            Len(transactions))

\* what the fares of the rides driver d completed add up to
CreditsOf(d) ==
    SumUpTo([i \in 1..Len(completeAcks) |->
               IF completeAcks[i].driver = d /\ completeAcks[i].success
               THEN completeAcks[i].fare ELSE 0],
            Len(completeAcks))

\* C28: whenever no working-hours debit of a driver is under way, the
\* driver's wallet is the provisioned balance minus the recorded debits plus
\* the fares of the completed rides, however debits and completions
\* interleaved: no update is lost.
C28_NoLostWalletUpdate ==
    \A d \in DOMAIN driverStore :
        d \notin DOMAIN hoursLoaded
            => driverStore[d].wallet =
                   ProvisionedDriver(d).wallet - DebitsOf(d) + CreditsOf(d)

-----------------------------------------------------------------------------
(* Overlapping calls of generateSequentialRaidId *)

MaxConcurrentAllocations == 6

RaidIdCallers == {"call1", "call2"}

\* findOneAndUpdate({$inc: {sequence: 1}}, {new: true}): the counter is
\* incremented and the caller holds the new value
RaidIdIncrement(c) ==
    /\ c \notin DOMAIN raidCalls
    /\ raidSeq' = raidSeq + 1
    /\ raidCalls' =
           [x \in DOMAIN raidCalls \cup {c} |->
              IF x = c THEN raidSeq + 1 ELSE raidCalls[x]]
    /\ UNCHANGED <<rideStore, driverStore, userStore, transactions, memVars,
                   outVars, raidIds, pushes, hoursLoaded, locationEmits,
                   driverLocations, now, acc>>

\* the rest of the call: past 999999 the counter is set to 100000 and that is
\* the number used; the number is formatted and returned
RaidIdReturn(c) ==
    /\ c \in DOMAIN raidCalls
    /\ LET sequenceNumber ==
               IF raidCalls[c] > SeqMax THEN SeqInitial ELSE raidCalls[c]
       IN /\ raidSeq' = IF raidCalls[c] > SeqMax THEN SeqInitial ELSE raidSeq
          /\ raidIds' = Append(raidIds, FormatRaidId(sequenceNumber))
    /\ raidCalls' = [x \in DOMAIN raidCalls \ {c} |-> raidCalls[x]]
    /\ UNCHANGED <<rideStore, driverStore, userStore, transactions, memVars,
                   outVars, pushes, hoursLoaded, locationEmits,
                   driverLocations, now, acc>>

NextRaidIdRace ==
    \/ \E c \in RaidIdCallers :
          /\ Len(raidIds) + Cardinality(DOMAIN raidCalls)
                < MaxConcurrentAllocations
          /\ RaidIdIncrement(c)
    \/ \E c \in RaidIdCallers : RaidIdReturn(c)

SpecRaidIdRace == InitRaidId /\ [][NextRaidIdRace]_vars

\* C31: the ids returned by calls of generateSequentialRaidId that may
\* overlap, none of them failing, are pairwise distinct, also across the
\* reset from 999999 to 100000.
C31_ConcurrentRaidIdsDistinct ==
    \A i, j \in 1..Len(raidIds) : i # j => raidIds[i] # raidIds[j]

-----------------------------------------------------------------------------
(* Booking when the allocated RAID_ID is already stored *)

\* the ride booked under the first id of the sequence, long completed when
\* the counter comes round again
FirstCycleRide ==
    [NewRide("u0", <<"C", "U", "S", "0", "0", "0", "1">>, "taxi", 30, 120,
             <<"0", "0", "0", "1">>)
        EXCEPT !.status = "completed", !.driverId = "DRV002",
               !.actualDistance = 30, !.actualFare = 120]

WrapStartSequences == {SeqMax - 1, SeqMax}

\* the counter is about to pass 999999 and the rides of the first cycle are
\* still stored
InitWrapBooking ==
    \E sequence \in WrapStartSequences :
        InitStore(sequence, [vt \in VehicleTypes |-> FallbackPrice(vt)],
                  (SeqInitial + 1) :> FirstCycleRide)

NextWrapBooking ==
    \/ Tick
    \/ \E u \in Users, c \in CustomerIds, vt \in ClientVehicleTypes,
          km \in BookDistances : BookRide(u, c, vt, km)

SpecWrapBooking == InitWrapBooking /\ [][NextWrapBooking]_vars

\* the acknowledgement this step added to bookAcks
NewBookAck == bookAcks'[Len(bookAcks')]

\* C32: a bookRide acknowledged with success true has stored a ride that was
\* not there before, in status pending, for the caller and the customerId
\* of the payload, and the acknowledged otp is that ride's.
C32_SuccessMeansNewRideOfCaller ==
    [][(Len(bookAcks') = Len(bookAcks) + 1 /\ NewBookAck.success)
       => /\ NewBookAck.rideId \notin DOMAIN rideStore
          /\ NewBookAck.rideId \in DOMAIN rideStore'
          /\ rideStore'[NewBookAck.rideId].status = "pending"
          /\ rideStore'[NewBookAck.rideId].user = NewBookAck.user
          /\ rideStore'[NewBookAck.rideId].customerId = NewBookAck.payload[2]
          /\ rideStore'[NewBookAck.rideId].otp = NewBookAck.otp]_vars

-----------------------------------------------------------------------------
(* The cleanup interval and the presence entries it sweeps *)

InactiveMs == 60000
EvictMs == 300000
StaleRideMs == 10800000

ShortStep == 61000
LongStep == 10861000
MaxShortSteps == 3

\* time passes between two events: a little over a minute while the clock is
\* young, a little over three hours once
Pass(ms) ==
    /\ ms = ShortStep => now < MaxShortSteps * ShortStep
    /\ ms = LongStep => now <= MaxShortSteps * ShortStep
    /\ now' = now + ms
    /\ UNCHANGED <<storeVars, memVars, outVars, svcVars, acc>>

\* socket.on("driverHeartbeat")
DriverHeartbeat(d) ==
    /\ d \in DOMAIN activeDriverSockets
    /\ activeDriverSockets' =
           [activeDriverSockets EXCEPT ![d].lastUpdate = now,
                                       ![d].isOnline = TRUE]
    /\ UNCHANGED <<storeVars, rooms, rides, recentRideEmissions, prices,
                   activeTimers, now, svcVars, outVars, acc>>

\* the presence entry after the inactivity check of the cleanup interval
SweptEntry(driver) ==
    IF driver.isOnline /\ driver.lastUpdate < now - InactiveMs
    THEN [driver EXCEPT !.isOnline = FALSE, !.status = "Offline"]
    ELSE driver

\* a cached ride the cleanup interval deletes: its timestamp is more than
\* three hours old (an entry without a timestamp compares false)
IsStaleRide(ride) ==
    /\ "timestamp" \in DOMAIN ride
    /\ ride.timestamp < now - StaleRideMs

\* one run of the cleanup interval: inactive drivers are marked offline and a
\* DriverLocation sample with status offline is saved for each, offline
\* entries older than five minutes are deleted, stale cached rides and old
\* dedup entries are deleted
Sweeper ==
    LET marked == {d \in DOMAIN activeDriverSockets :
                      /\ activeDriverSockets[d].isOnline
                      /\ activeDriverSockets[d].lastUpdate < now - InactiveMs}
        kept == {d \in DOMAIN activeDriverSockets :
                    ~ (/\ ~SweptEntry(activeDriverSockets[d]).isOnline
                       /\ activeDriverSockets[d].lastUpdate < now - EvictMs)}
    IN /\ activeDriverSockets' =
              [d \in kept |-> SweptEntry(activeDriverSockets[d])]
       /\ driverLocations' =
              [x \in DOMAIN driverLocations \cup marked |->
                 IF x \in marked THEN "offline" ELSE driverLocations[x]]
       /\ rides' = [r \in {x \in DOMAIN rides : ~IsStaleRide(rides[x])} |->
                      rides[r]]
       /\ recentRideEmissions' =
              [r \in {x \in DOMAIN recentRideEmissions :
                         ~ (recentRideEmissions[x] < now - InactiveMs)} |->
                 recentRideEmissions[r]]
       /\ UNCHANGED <<storeVars, rooms, prices, activeTimers, now, callVars,
                      outVars, acc>>

\* the drivers of the periodic driverLocationsUpdate broadcast
BroadcastDrivers ==
    {d \in DOMAIN activeDriverSockets :
        /\ activeDriverSockets[d].isOnline
        /\ now - activeDriverSockets[d].lastUpdate < InactiveMs}

NextSweep ==
    \/ \E ms \in {ShortStep, LongStep} : Pass(ms)
    \/ Sweeper
    \/ \E d \in Drivers : RegisterDriver("s1", d, "bike")
    \/ DriverGoOnline("s1", "DRV001")
    \/ DriverOffline("DRV001")
    \/ DriverHeartbeat("DRV001")
    \/ DriverLocationUpdate("DRV001", "none")
    \/ \E u \in Users :
          /\ Len(bookAcks) < MaxLifecycleRides
          /\ BookRide(u, <<"C", "U", "S", "0", "0", "6", "5">>, "bike", 54)
    \/ \E r \in DOMAIN rideStore :
          /\ Rejections(r) < MaxRejections
          /\ RejectRide("DRV001", r)

SpecSweep == Init /\ [][NextSweep]_vars

\* the step is one run of the cleanup interval
IsSweeperStep == Sweeper

\* C34: after a run of the cleanup interval every driver whose presence
\* entry was last updated more than 60 seconds ago has isOnline false in
\* memory and status offline in the stored driver document.
C34_SweptDriversOfflineInMemoryAndStore ==
    [][IsSweeperStep
       => \A d \in DOMAIN activeDriverSockets' :
             activeDriverSockets'[d].lastUpdate < now - InactiveMs
                => /\ ~activeDriverSockets'[d].isOnline
                   /\ d \in DOMAIN driverStore
                        => driverStore'[d].status \in {"offline", "Offline"}]_vars

\* C39: a presence entry that is offline comes back online, and its driver
\* back into the periodic broadcast, only by a driverGoOnline or
\* registerDriver for that driver.
C39_OfflineUntilGoOnlineOrRegister ==
    [][\A d \in DOMAIN activeDriverSockets :
          (/\ ~activeDriverSockets[d].isOnline
           /\ d \in DOMAIN activeDriverSockets'
           /\ \/ activeDriverSockets'[d].isOnline
              \/ d \in BroadcastDrivers')
          => \/ \E s \in Sockets : DriverGoOnline(s, d)
             \/ \E s \in Sockets, vt \in ClientVehicleTypes :
                   RegisterDriver(s, d, vt)]_vars

-----------------------------------------------------------------------------
(* The passenger's live location and the cache of active rides *)

MaxLocationUpdates == 1

DriverRoom(d) == "driver_" \o d

\* io.to(room).emit("userLiveLocationUpdate", ...) and
\* io.emit("userLiveLocationUpdate", ...), which reaches every connection
LocationEmit(u, r, d, room, recipients) ==
    [userId |-> u, rideId |-> r, driverId |-> d, room |-> room,
     recipients |-> recipients]

\* the driver userLocationUpdate finds in the cached ride
CachedDriver(r) ==
    IF r \in DOMAIN rides /\ "driverId" \in DOMAIN rides[r]
    THEN rides[r].driverId ELSE NoDriver

\* the driver userLocationUpdate finds in the stored ride
StoredDriver(r) ==
    IF r \in DOMAIN rideStore THEN rideStore[r].driverId ELSE NoDriver

\* socket.on("userLocationUpdate"): the driver is taken from the cached ride
\* or else from the stored ride, which then creates or completes the cache
\* entry; without a driver nothing is sent
UserLocationUpdate(u, r) ==
    LET driverId == IF CachedDriver(r) # NoDriver THEN CachedDriver(r)
                    ELSE StoredDriver(r)
    IN /\ driverId # NoDriver
       /\ rides' =
              IF CachedDriver(r) # NoDriver THEN rides
              ELSE IF r \in DOMAIN rides
              THEN [rides EXCEPT ![r].driverId = driverId]
              ELSE [x \in DOMAIN rides \cup {r} |->
                      IF x = r THEN [driverId |-> driverId] ELSE rides[x]]
       /\ locationEmits' = locationEmits \o
              << LocationEmit(u, r, driverId, DriverRoom(driverId),
                              RoomMembers(DriverRoom(driverId))),
                 LocationEmit(u, r, driverId, "*", Sockets) >>
       /\ UNCHANGED <<storeVars, activeDriverSockets, rooms,
                      recentRideEmissions, prices, activeTimers, now, outVars,
                      raidIds, pushes, hoursLoaded, raidCalls, driverLocations,
                      acc>>

NextRideCache ==
    \/ \E ms \in {ShortStep, LongStep} : Pass(ms)
    \/ Sweeper
    \/ \E u \in Users :
          /\ Len(bookAcks) < MaxLifecycleRides
          /\ now <= MaxShortSteps * ShortStep
          /\ BookRide(u, <<"C", "U", "S", "0", "0", "6", "5">>, "bike", 54)
    \/ \E d \in Drivers, r \in DOMAIN rideStore :
          DriverAcceptedRideWithData(d, r)
    \/ \E u \in Users, r \in DOMAIN rideStore :
          /\ Len(locationEmits) < 2 * MaxLocationUpdates
          /\ UserLocationUpdate(u, r)
    \/ \E r \in DOMAIN rideStore :
          /\ Len(completeAcks) < MaxCompletions
          /\ DriverCompletedRide("DRV001", r, 55, 83)

\* time keeps passing and the cleanup interval keeps running
SpecRideCache ==
    /\ Init
    /\ [][NextRideCache]_vars
    /\ WF_vars(\E ms \in {ShortStep, LongStep} : Pass(ms))
    /\ WF_vars(Sweeper)

\* C33: every userLiveLocationUpdate is sent to the room of the driver
\* assigned to the ride and to nothing else; none is sent for a ride without
\* a driver.
C33_LocationOnlyToAssignedDriverRoom ==
    \A i \in 1..Len(locationEmits) :
        /\ locationEmits[i].driverId # NoDriver
        /\ locationEmits[i].room = DriverRoom(locationEmits[i].driverId)

\* C35: every entry of the cache of active rides is eventually removed.
C35_CachedRideEventuallyRemoved ==
    \A r \in RideIds : (r \in DOMAIN rides) ~> (r \notin DOMAIN rides)

-----------------------------------------------------------------------------
(* Buying working time: extend, add half time, add full time *)

ExtendHours == 12

\* the seconds a driver has left: the running countdown, else the stored value
RemainingSeconds(d) ==
    IF d \in DOMAIN activeTimers THEN activeTimers[d]
    ELSE driverStore[d].remainingWorkingSeconds

\* a purchase of `seconds` of working time for `amount`, recorded under
\* `method`; resetWarnings says whether warningsIssued goes back to 0
BuyTime(op, d, seconds, amount, method, resetWarnings) ==
    /\ IF d \notin DOMAIN driverStore
       THEN /\ hoursAcks' = Append(hoursAcks,
                   HoursAck(op, d, FALSE, "Driver not found", 0, 0, 0))
            /\ UNCHANGED <<driverStore, transactions, activeTimers>>
       ELSE IF driverStore[d].wallet < amount
       THEN /\ hoursAcks' = Append(hoursAcks,
                   HoursAck(op, d, FALSE, "Insufficient wallet balance", 0,
                            driverStore[d].wallet, RemainingSeconds(d)))
            /\ UNCHANGED <<driverStore, transactions, activeTimers>>
       ELSE /\ driverStore' = [driverStore EXCEPT
                   ![d].wallet = @ - amount,
                   ![d].remainingWorkingSeconds = RemainingSeconds(d) + seconds,
                   ![d].warningsIssued = IF resetWarnings THEN 0 ELSE @]
            /\ transactions' = Append(transactions,
                   Transaction(d, amount, "debit", method))
            /\ activeTimers' =
                   IF d \in DOMAIN activeTimers
                   THEN [activeTimers EXCEPT ![d] = @ + seconds]
                   ELSE activeTimers
            /\ hoursAcks' = Append(hoursAcks,
                   HoursAck(op, d, TRUE, "Time added", amount,
                            driverStore[d].wallet - amount,
                            RemainingSeconds(d) + seconds))
    /\ UNCHANGED <<rideStore, userStore, raidSeq, activeDriverSockets, rooms,
                   rides, recentRideEmissions, prices, now, svcVars, userEvents,
                   fanouts, bookAcks, acceptAcks, startLog, completeAcks, acc>>

\* the amount purchaseExtendedHours debits
ExtendAmount(d) ==
    IF d \in DOMAIN driverStore THEN DeductionAmount(driverStore[d]) ELSE 0

\* purchaseExtendedHours that keeps warningsIssued as it is
PurchaseExtendedHoursNoReset(d) ==
    BuyTime("extend", d, ExtendHours * SecondsPerHour, ExtendAmount(d),
            "extended_hours_purchase", FALSE)

\* POST /drivers/working-hours/extend
PurchaseExtendedHours(d) ==
    BuyTime("extend", d, ExtendHours * SecondsPerHour, ExtendAmount(d),
            "extended_hours_purchase", TRUE)

ExtraTimeKinds == {"half", "full"}

\* the hours an add-half-time or add-full-time request buys
ExtraHours(workingHoursLimit, kind) ==
    IF workingHoursLimit = 24
    THEN (IF kind = "half" THEN 12 ELSE 24)
    ELSE (IF kind = "half" THEN 6 ELSE 12)

\* the amount an add-half-time or add-full-time request costs
ExtraAmount(workingHoursLimit, kind) ==
    IF workingHoursLimit = 24
    THEN (IF kind = "half" THEN 100 ELSE 200)
    ELSE (IF kind = "half" THEN 50 ELSE 100)

\* POST /drivers/working-hours/add-half-time and add-full-time: seconds are
\* added and the wallet is debited; warningsIssued is left alone
AddExtraTime(d, kind) ==
    LET limit == IF d \in DOMAIN driverStore
                 THEN driverStore[d].workingHoursLimit ELSE 12
    IN BuyTime("add-" \o kind, d, ExtraHours(limit, kind) * SecondsPerHour,
               ExtraAmount(limit, kind), "extra_" \o kind \o "_time", FALSE)

NextHoursExt ==
    \/ \E d \in DriverIds :
          /\ HoursRequests < MaxHoursOps
          /\ StartWorkingHoursTimer(d)
    \/ \E d \in Drivers :
          /\ HoursRequests < MaxHoursOps
          /\ StopWorkingHoursTimer(d)
    \/ \E d \in Drivers, t \in Checkpoints : TimerTick(d, t)
    \/ \E d \in Drivers :
          /\ HoursRequests < MaxHoursOps
          /\ TimerExpiry(d)
    \/ \E d \in DriverIds :
          /\ HoursRequests < MaxHoursOps
          /\ PurchaseExtendedHours(d)
    \/ \E d \in DriverIds, kind \in ExtraTimeKinds :
          /\ HoursRequests < MaxHoursOps
          /\ AddExtraTime(d, kind)

SpecHoursExt == Init /\ [][NextHoursExt]_vars

\* driver d has bought half or full extra time
BoughtExtraTime(d) ==
    \E i \in 1..Len(transactions) :
        /\ transactions[i].driver = d
        /\ transactions[i].method \in {"extra_half_time", "extra_full_time"}

\* every driver's remaining seconds, stored and counted down, are >= 0
RemainingNonNegative ==
    /\ \A d \in DOMAIN driverStore :
          driverStore[d].remainingWorkingSeconds >= 0
    /\ \A d \in DOMAIN activeTimers : activeTimers[d] >= 0

-----------------------------------------------------------------------------
(* Who may complete a ride *)

\* C37: a driverCompletedRide from a driver who is not the driver stored on
\* the ride, which includes every ride that was never accepted, changes
\* neither the stored rides nor any wallet.
C37_OnlyAssignedDriverCompletes ==
    [][(/\ IsCompletionStep
        /\ NewCompleteAck.rideId \in DOMAIN rideStore
        /\ rideStore[NewCompleteAck.rideId].driverId # NewCompleteAck.driver)
       => /\ rideStore' = rideStore
          /\ Wallets' = Wallets]_vars

-----------------------------------------------------------------------------
(* acceptRide when a step after the commit fails *)

\* the steps of acceptRide after commitTransaction that can throw: the
\* Driver.findOne before the success callback, the emits after it
AcceptFailurePoints == {"Driver.findOne", "emit"}

\* acceptRide after the commit when the step `at` throws. The inner catch
\* calls session.abortTransaction() on the committed transaction: when that
\* call throws, the inner failure callback is skipped and only the outer
\* catch calls back; when it returns, the inner catch calls back, rethrows,
\* and the outer catch calls back again. A throw after the success callback
\* leaves that callback delivered. The committed ride stays accepted.
AcceptRespondThrows(d, at, abortThrows) ==
    LET r == acc[d].rideId
        succeeded == IF at = "emit"
                     THEN <<AcceptAck("acceptRide", d, acc[d].calls, r,
                                      "pending", TRUE,
                                      "Ride accepted successfully", TRUE)>>
                     ELSE <<>>
        inner == IF abortThrows
                 THEN <<>>
                 ELSE <<AcceptAck("acceptRide", d, acc[d].calls, r, "pending",
                                  FALSE, "Failed to accept ride", FALSE)>>
        outer == <<AcceptAck("acceptRide", d, acc[d].calls, r, "pending",
                             FALSE, "error", FALSE)>>
    IN /\ acc[d].pc = "respond"
       /\ acceptAcks' = [acceptAcks EXCEPT ![d] =
                            @ \o succeeded \o inner \o outer]
       /\ acc' = [acc EXCEPT ![d].pc = "idle"]
       /\ UNCHANGED <<storeVars, memVars, now, svcVars, userEvents, fanouts,
                      bookAcks, startLog, completeAcks, hoursAcks>>

NextAcceptErrors ==
    \/ \E u \in Users :
          /\ Len(bookAcks) < MaxRaceRides
          /\ BookRide(u, <<"C", "U", "S", "0", "0", "6", "5">>, "bike", 54)
    \/ \E d \in DriverIds, r \in RideIds : AcceptFindOne("s1", d, r)
    \/ \E d \in DriverIds : AcceptUpdate(d)
    \/ \E d \in DriverIds : AcceptRespond(d)
    \/ \E d \in DriverIds, at \in AcceptFailurePoints, abortThrows \in BOOLEAN :
          AcceptRespondThrows(d, at, abortThrows)

SpecAcceptErrors == Init /\ [][NextAcceptErrors]_vars

\* the callbacks of the driver's acceptRide call number c, in order
CallbacksOf(d, c) ==
    SelectSeq(acceptAcks[d], LAMBDA a : a.kind = "acceptRide" /\ a.call = c)

\* C38: every finished acceptRide call has invoked its callback exactly
\* once, and no call has a success callback followed by a failure callback.
C38_AcceptCallbackExactlyOnce ==
    \A d \in DriverIds : \A c \in 1..acc[d].calls :
        /\ (acc[d].pc = "idle" \/ c < acc[d].calls)
              => Len(CallbacksOf(d, c)) = 1
        /\ \A i, j \in 1..Len(CallbacksOf(d, c)) :
              (i < j /\ CallbacksOf(d, c)[i].success)
                 => CallbacksOf(d, c)[j].success

-----------------------------------------------------------------------------
(* Driver connections in the passenger's private room *)

MaxRoomRides == 2

\* each driver app holds one connection
ConnectionOf(d) == IF d = "DRV001" THEN "s1" ELSE "s2"

\* two rides of the passenger in succession: booked, accepted over the
\* driver's connection (acceptRide joins the passenger's room; no handler
\* leaves a room), completed
NextPassengerRoom ==
    \/ \E u \in Users :
          /\ Len(bookAcks) < MaxRoomRides
          /\ \A r \in DOMAIN rideStore : rideStore[r].status = "completed"
          /\ BookRide(u, <<"C", "U", "S", "0", "0", "6", "5">>, "bike", 54)
    \/ \E d \in Drivers, r \in DOMAIN rideStore :
          AcceptFindOne(ConnectionOf(d), d, r)
    \/ \E d \in Drivers : AcceptUpdate(d)
    \/ \E d \in Drivers : AcceptRespond(d)
    \/ \E r \in DOMAIN rideStore, km \in CompleteDistances :
          /\ rideStore[r].status = "accepted"
          /\ DriverCompletedRide(rideStore[r].driverId, r, km, 83)

SpecPassengerRoom == Init /\ [][NextPassengerRoom]_vars

\* the events a step adds to what was emitted to the passenger's room
NewUserEvents(u) ==
    SubSeq(userEvents'[u], Len(userEvents[u]) + 1, Len(userEvents'[u]))

\* the drivers whose connection is in the passenger's room when a step begins
DriversInRoom(u) ==
    {d \in Drivers : ConnectionOf(d) \in RoomMembers(UserRoom(u))}

\* when the step begins, ride r is stored as accepted by d and not completed
HoldsRide(d, r) ==
    /\ r \in DOMAIN rideStore
    /\ rideStore[r].driverId = d
    /\ rideStore[r].status \notin {"pending", "searching", "completed"}

\* C40: every event emitted to a passenger's private room reaches a driver
\* connection only when it is about a ride that this driver has accepted and
\* not yet completed; after the completion the driver receives none of the
\* passenger's later events.
C40_DriverSeesOnlyOwnActiveRide ==
    [][\A u \in Users : \A i \in 1..Len(NewUserEvents(u)) :
          \A d \in DriversInRoom(u) :
              HoldsRide(d, NewUserEvents(u)[i].rideId)]_vars

====
